---- MODULE Spec2Model ----
(***************************************************************************)
(* A model of the user-service: the single polymorphic users table kept    *)
(* through GORM on PostgreSQL, the UserService operations on it, the role  *)
(* validation run by the BeforeCreate hook and by the bulk import, and the *)
(* request handlers that map service errors to HTTP statuses.              *)
(*                                                                         *)
(* A nullable column / Go pointer field is NULL (the empty tuple) or the   *)
(* one-element tuple <<v>> of its value; errors are the chain of messages  *)
(* fmt.Errorf builds, the empty chain being nil.                           *)
(***************************************************************************)
EXTENDS Integers, Sequences, FiniteSets, TLC

VARIABLES users, idseq, clock, pending, last

vars == <<users, idseq, clock, pending, last>>

(***************************************************************************)
(* Bounds of the exploration.                                              *)
(***************************************************************************)
\* the id sequence hands out at most MaxRows ids
MaxRows == 2
\* the clock (one tick per write statement) stops at MaxClock
MaxClock == 3

(***************************************************************************)
(* Values.                                                                 *)
(***************************************************************************)
NULL == <<>>

Some(v) == <<v>>

NoError == <<>>

\* `p == nil || *p == ""` of ValidateForRole / ValidateRoleRequiredFields
NilOrEmpty(p) == p = NULL \/ p[1] = ""

Roles == {"admin", "teacher", "student"}

Genders == {"male", "female"}

\* a zero models.User: every pointer nil, strings empty, IsActive false
ZeroUser ==
    [ id |-> 0, created_at |-> 0, updated_at |-> 0, deleted_at |-> NULL,
      username |-> "", email |-> "", password_hash |-> "", role |-> "",
      is_active |-> FALSE,
      full_name |-> NULL, phone |-> NULL, address |-> NULL,
      date_of_birth |-> NULL, gender |-> NULL, profile_photo |-> NULL,
      employee_id |-> NULL, specialization |-> NULL, qualification |-> NULL,
      experience_years |-> NULL, hire_date |-> NULL, salary |-> NULL,
      student_id |-> NULL, class_level |-> NULL, academic_year |-> NULL,
      parent_name |-> NULL, parent_phone |-> NULL, parent_email |-> NULL,
      enrollment_date |-> NULL, graduation_date |-> NULL,
      emergency_contact |-> NULL, emergency_phone |-> NULL,
      medical_conditions |-> NULL, blood_type |-> NULL,
      status |-> NULL, additional_data |-> NULL ]

\* a zero models.CreateUserRequest
ZeroCreateReq ==
    [ username |-> "", email |-> "", password |-> <<>>, role |-> "",
      full_name |-> NULL, phone |-> NULL, address |-> NULL,
      date_of_birth |-> NULL, gender |-> NULL,
      employee_id |-> NULL, student_id |-> NULL, class_level |-> NULL,
      academic_year |-> NULL, parent_name |-> NULL, parent_phone |-> NULL,
      specialization |-> NULL ]

\* the fields of models.UpdateUserRequest, all pointers
UpdateFields ==
    { "full_name", "phone", "address", "date_of_birth", "gender",
      "employee_id", "student_id", "class_level", "academic_year",
      "parent_name", "parent_phone", "specialization", "experience_years",
      "emergency_contact", "emergency_phone", "medical_conditions", "status" }

\* a zero models.UpdateUserRequest
ZeroUpdateReq == [f \in UpdateFields |-> NULL]

(***************************************************************************)
(* Role validation.                                                        *)
(***************************************************************************)
\* a faulty ValidateForRole that checks the teacher's employee ID only
ValidateForRoleNoSpecialization(u) ==
    CASE u.role = "teacher" ->
           IF NilOrEmpty(u.employee_id)
             THEN <<"employee_id is required for teachers">>
             ELSE NoError
      [] OTHER -> NoError

\* a faulty ValidateForRole that forgets the student's parent phone
ValidateForRoleNoParentPhone(u) ==
    CASE u.role = "teacher" ->
           IF NilOrEmpty(u.employee_id)
             THEN <<"employee_id is required for teachers">>
           ELSE IF NilOrEmpty(u.specialization)
             THEN <<"specialization is required for teachers">>
           ELSE NoError
      [] u.role = "student" ->
           IF NilOrEmpty(u.student_id)
             THEN <<"student_id is required for students">>
           ELSE IF NilOrEmpty(u.class_level)
             THEN <<"class_level is required for students">>
           ELSE IF NilOrEmpty(u.parent_name)
             THEN <<"parent_name is required for students">>
           ELSE NoError
      [] OTHER -> NoError

\* a faulty ValidateForRole that asks an admin for an employee ID
ValidateForRoleAdminEmployee(u) ==
    CASE u.role = "teacher" ->
           IF NilOrEmpty(u.employee_id)
             THEN <<"employee_id is required for teachers">>
           ELSE IF NilOrEmpty(u.specialization)
             THEN <<"specialization is required for teachers">>
           ELSE NoError
      [] u.role = "student" ->
           IF NilOrEmpty(u.student_id)
             THEN <<"student_id is required for students">>
           ELSE IF NilOrEmpty(u.class_level)
             THEN <<"class_level is required for students">>
           ELSE IF NilOrEmpty(u.parent_name)
             THEN <<"parent_name is required for students">>
           ELSE IF NilOrEmpty(u.parent_phone)
             THEN <<"parent_phone is required for students">>
           ELSE NoError
      [] u.role = "admin" ->
           IF NilOrEmpty(u.employee_id)
             THEN <<"employee_id is required for admins">>
             ELSE NoError
      [] OTHER -> NoError

\* a faulty ValidateForRole that reports the last missing field of a student
ValidateForRoleLastMissing(u) ==
    CASE u.role = "teacher" ->
           IF NilOrEmpty(u.employee_id)
             THEN <<"employee_id is required for teachers">>
           ELSE IF NilOrEmpty(u.specialization)
             THEN <<"specialization is required for teachers">>
           ELSE NoError
      [] u.role = "student" ->
           IF NilOrEmpty(u.parent_phone)
             THEN <<"parent_phone is required for students">>
           ELSE IF NilOrEmpty(u.parent_name)
             THEN <<"parent_name is required for students">>
           ELSE IF NilOrEmpty(u.class_level)
             THEN <<"class_level is required for students">>
           ELSE IF NilOrEmpty(u.student_id)
             THEN <<"student_id is required for students">>
           ELSE NoError
      [] OTHER -> NoError

\* User.ValidateForRole: the first missing field of the role, or nil
ValidateForRole(u) ==
    CASE u.role = "teacher" ->
           IF NilOrEmpty(u.employee_id)
             THEN <<"employee_id is required for teachers">>
           ELSE IF NilOrEmpty(u.specialization)
             THEN <<"specialization is required for teachers">>
           ELSE NoError
      [] u.role = "student" ->
           IF NilOrEmpty(u.student_id)
             THEN <<"student_id is required for students">>
           ELSE IF NilOrEmpty(u.class_level)
             THEN <<"class_level is required for students">>
           ELSE IF NilOrEmpty(u.parent_name)
             THEN <<"parent_name is required for students">>
           ELSE IF NilOrEmpty(u.parent_phone)
             THEN <<"parent_phone is required for students">>
           ELSE NoError
      [] u.role = "admin" -> NoError
      [] OTHER -> NoError

\* UserService.ValidateRoleRequiredFields: the same switch, in the service
ValidateRoleRequiredFields(u) ==
    CASE u.role = "teacher" ->
           IF NilOrEmpty(u.employee_id)
             THEN <<"employee_id is required for teachers">>
           ELSE IF NilOrEmpty(u.specialization)
             THEN <<"specialization is required for teachers">>
           ELSE NoError
      [] u.role = "student" ->
           IF NilOrEmpty(u.student_id)
             THEN <<"student_id is required for students">>
           ELSE IF NilOrEmpty(u.class_level)
             THEN <<"class_level is required for students">>
           ELSE IF NilOrEmpty(u.parent_name)
             THEN <<"parent_name is required for students">>
           ELSE IF NilOrEmpty(u.parent_phone)
             THEN <<"parent_phone is required for students">>
           ELSE NoError
      [] u.role = "admin" -> NoError
      [] OTHER -> NoError

\* User.BeforeCreate: the hook GORM runs before the INSERT
BeforeCreate(u) == ValidateForRole(u)

\* User.BeforeUpdate: validates only when the statement changes the role
BeforeUpdate(u, roleChanged) == IF roleChanged THEN ValidateForRole(u) ELSE NoError

(***************************************************************************)
(* Passwords: a password is the sequence of its characters, each given by  *)
(* its Unicode class: "U" upper, "l" lower, "d" digit, "s" punctuation or  *)
(* symbol, "o" anything else (a space), all of one byte in UTF-8, and "l2" *)
(* a lower-case letter of two bytes (an accented one).                     *)
(***************************************************************************)
\* DefaultPasswordRequirements().MinLength
MinLength == 8

\* "Admin123!@#", the password SeedData gives the administrator
PwAdmin == <<"U", "l", "l", "l", "l", "d", "d", "d", "s", "s", "s">>

\* "Ab1!"
PwShort == <<"U", "l", "d", "s">>

\* "Abcdef12"
PwNoSpecial == <<"U", "l", "l", "l", "l", "l", "d", "d">>

Passwords == {PwAdmin, PwShort, PwNoSpecial}

HasClass(pw, c) == \E i \in 1..Len(pw) : pw[i] = c

\* unicode.IsLower holds of some character
HasLower(pw) == HasClass(pw, "l") \/ HasClass(pw, "l2")

\* len(password): the bytes of the string
Bytes(pw) == Len(pw) + Cardinality({i \in 1..Len(pw) : pw[i] = "l2"})

\* the requirements a password of sufficient length leaves unmet, in order
MissingClasses(pw) ==
    (IF HasClass(pw, "U") THEN <<>> ELSE <<"at least one uppercase letter">>)
    \o (IF HasLower(pw) THEN <<>> ELSE <<"at least one lowercase letter">>)
    \o (IF HasClass(pw, "d") THEN <<>> ELSE <<"at least one number">>)
    \o (IF HasClass(pw, "s") THEN <<>>
        ELSE <<"at least one special character (!@#$%^&*)">>)

\* utils.ValidatePassword
ValidatePassword(pw) ==
    IF Bytes(pw) < MinLength
      THEN <<"password must be at least 8 characters long">>
    ELSE IF MissingClasses(pw) # <<>>
      THEN <<"password must contain: ">> \o MissingClasses(pw)
    ELSE NoError

\* the bcrypt digest of a password: one-way, never the plaintext
Digest(pw) == <<"$2a$10$", pw>>

\* utils.HashPassword: [hash, err]
HashPassword(pw) ==
    IF ValidatePassword(pw) # NoError
      THEN [hash |-> "", err |-> ValidatePassword(pw)]
      ELSE [hash |-> Digest(pw), err |-> NoError]

(***************************************************************************)
(* The users table: a set of rows, tombstoned rows included.               *)
(***************************************************************************)
\* the deleted_at IS NULL that GORM adds to every statement on the model
NotDeleted(r) == r.deleted_at = NULL

Live(tbl) == {r \in tbl : NotDeleted(r)}

\* a faulty UniqueViolation whose indexes skip tombstoned rows
UniqueViolationLiveOnly(tbl, r) ==
    \E o \in Live(tbl) :
        /\ o.id # r.id
        /\ \/ o.username = r.username
           \/ o.email = r.email
           \/ r.employee_id # NULL /\ o.employee_id = r.employee_id
           \/ r.student_id # NULL /\ o.student_id = r.student_id

\* a faulty UniqueViolation without the username and email indexes
UniqueViolationIdsOnly(tbl, r) ==
    \E o \in tbl :
        /\ o.id # r.id
        /\ \/ r.employee_id # NULL /\ o.employee_id = r.employee_id
           \/ r.student_id # NULL /\ o.student_id = r.student_id

\* the uniqueIndex tags of User: username, email, employee_id, student_id,
\* over every row of the table (NULLs never collide)
UniqueViolation(tbl, r) ==
    \E o \in tbl :
        /\ o.id # r.id
        /\ \/ o.username = r.username
           \/ o.email = r.email
           \/ r.employee_id # NULL /\ o.employee_id = r.employee_id
           \/ r.student_id # NULL /\ o.student_id = r.student_id

\* the check: tags of User on role and gender
CheckViolation(r) ==
    \/ r.role \notin Roles
    \/ r.gender # NULL /\ r.gender[1] \notin Genders

\* what PostgreSQL answers to a statement that breaks a constraint
PgError(tbl, r) ==
    IF CheckViolation(r)
      THEN <<"new row violates check constraint">>
    ELSE IF UniqueViolation(tbl, r)
      THEN <<"duplicate key value violates unique constraint">>
    ELSE NoError

\* the default: tags GORM applies to zero fields of a row it inserts
WithDefaults(u) ==
    [u EXCEPT !.is_active = TRUE,
              !.experience_years = IF @ = NULL THEN Some(0) ELSE @,
              !.status = IF @ = NULL THEN Some("active") ELSE @]

\* the row db.Create sends: id from the sequence, both timestamps now
NewRow(u, id, now) ==
    [WithDefaults(u) EXCEPT !.id = id, !.created_at = now, !.updated_at = now]

\* db.Create(&user): [err, tbl, idseq, clock, row] after the statement
DbCreate(tbl, seq, clk, u) ==
    LET row == NewRow(u, seq + 1, clk + 1)
    IN  IF BeforeCreate(u) # NoError
          THEN [err |-> BeforeCreate(u), tbl |-> tbl, idseq |-> seq,
                clock |-> clk, row |-> u]
        ELSE IF PgError(tbl, row) # NoError
          THEN [err |-> PgError(tbl, row), tbl |-> tbl, idseq |-> seq + 1,
                clock |-> clk, row |-> u]
        ELSE [err |-> NoError, tbl |-> tbl \cup {row}, idseq |-> seq + 1,
              clock |-> clk + 1, row |-> row]

(***************************************************************************)
(* Lookups.                                                                *)
(***************************************************************************)
ErrNotFound == <<"user not found">>

\* db.First(&user, id) and its mapping of ErrRecordNotFound
GetUserByID(id) ==
    IF \E r \in Live(users) : r.id = id
      THEN [user |-> Some(CHOOSE r \in Live(users) : r.id = id), err |-> NoError]
      ELSE [user |-> NULL, err |-> ErrNotFound]

\* a faulty GetUserByUsername that returns inactive users too
GetUserByUsernameAnyStatus(username) ==
    IF \E r \in Live(users) : r.username = username
      THEN [user |-> Some(CHOOSE r \in Live(users) : r.username = username),
            err |-> NoError]
      ELSE [user |-> NULL, err |-> ErrNotFound]

\* db.Where("username = ? AND is_active = ?", username, true).First(&user)
GetUserByUsername(username) ==
    IF \E r \in Live(users) : r.username = username /\ r.is_active
      THEN [user |-> Some(CHOOSE r \in Live(users) :
                              r.username = username /\ r.is_active),
            err |-> NoError]
      ELSE [user |-> NULL, err |-> ErrNotFound]

\* db.Where("email = ? AND is_active = ?", email, true).First(&user)
GetUserByEmail(email) ==
    IF \E r \in Live(users) : r.email = email /\ r.is_active
      THEN [user |-> Some(CHOOSE r \in Live(users) :
                              r.email = email /\ r.is_active),
            err |-> NoError]
      ELSE [user |-> NULL, err |-> ErrNotFound]

\* a faulty UserExists that matches on the username alone
UserExistsUsernameOnly(tbl, username, email) ==
    \E r \in Live(tbl) : r.username = username

\* the query of CheckUserExists over a table: count > 0
UserExists(tbl, username, email) ==
    \E r \in Live(tbl) : r.username = username \/ r.email = email

\* UserService.CheckUserExists on the current table
CheckUserExists(username, email) == UserExists(users, username, email)

(***************************************************************************)
(* The projected view.                                                     *)
(***************************************************************************)
\* the fields of models.UserResponse
ResponseFields ==
    { "id", "created_at", "updated_at", "username", "email", "role",
      "is_active", "full_name", "phone", "address", "date_of_birth", "gender",
      "profile_photo", "employee_id", "specialization", "qualification",
      "experience_years", "hire_date", "student_id", "class_level",
      "academic_year", "parent_name", "parent_phone", "parent_email",
      "enrollment_date", "graduation_date", "emergency_contact",
      "emergency_phone", "medical_conditions", "status" }

\* a faulty ToResponse that hands out the whole record
ToResponseWhole(u) == u

\* User.ToResponse
ToResponse(u) == [f \in ResponseFields |-> u[f]]

(***************************************************************************)
(* Requests.                                                               *)
(***************************************************************************)
Usernames == {"admin", "u1"}

Emails == {"admin@pesantren.com", "u1@x.id"}

\* the role-specific fields a creation request carries, as (employee_id,
\* specialization, student_id, class_level, parent_name, parent_phone)
Profile(req, e, sp, st, cl, pn, pp) ==
    [req EXCEPT !.employee_id = e, !.specialization = sp, !.student_id = st,
                !.class_level = cl, !.parent_name = pn, !.parent_phone = pp]

AdminProfile(req) == [req EXCEPT !.role = "admin"]

TeacherProfile(req) ==
    [Profile(req, Some("E1"), Some("fiqh"), NULL, NULL, NULL, NULL)
       EXCEPT !.role = "teacher"]

StudentProfile(req) ==
    [Profile(req, NULL, NULL, Some("S1"), Some("7A"), Some("pn"), Some("08"))
       EXCEPT !.role = "student"]

Login(username, email, pw) ==
    [ZeroCreateReq EXCEPT !.username = username, !.email = email,
                          !.password = pw]

\* the creation requests explored: a valid profile of each role, a teacher
\* without specialization, an admin who carries the teacher's employee ID,
\* a password the policy rejects and a role the table does not allow; the
\* student shares its username with the teacher and its email with the admin
CreateReqs ==
    { AdminProfile(Login("admin", "admin@pesantren.com", PwAdmin)),
      TeacherProfile(Login("u1", "u1@x.id", PwAdmin)),
      StudentProfile(Login("u1", "admin@pesantren.com", PwAdmin)),
      [TeacherProfile(Login("u1", "u1@x.id", PwAdmin))
         EXCEPT !.specialization = NULL],
      [AdminProfile(Login("admin", "admin@pesantren.com", PwAdmin))
         EXCEPT !.employee_id = Some("E1")],
      AdminProfile(Login("u1", "u1@x.id", PwNoSpecial)),
      [AdminProfile(Login("u1", "u1@x.id", PwAdmin)) EXCEPT !.role = "guest"] }

\* an update request that supplies the fields of the function m
Supplying(m) ==
    [f \in UpdateFields |-> IF f \in DOMAIN m THEN Some(m[f]) ELSE NULL]

\* the update requests explored
UpdateReqs ==
    { ZeroUpdateReq,
      Supplying([phone |-> "0811", address |-> "a"]),
      Supplying([employee_id |-> "E1"]),
      Supplying([gender |-> "x"]) }

PhotoPaths == {"profiles/2026/11/p.png"}

(***************************************************************************)
(* The response of the last completed operation: its name, the error the   *)
(* service returned, the HTTP status of its handler (0 for an operation no *)
(* route reaches) and the user returned, if any.                           *)
(***************************************************************************)
Response(op, err, status, ret) ==
    [op |-> op, err |-> err, status |-> status, ret |-> ret]

NoResponse == Response("none", NoError, 0, NULL)

Init ==
    /\ users = {}
    /\ idseq = 0
    /\ clock = 0
    /\ pending = NULL
    /\ last = NoResponse

IDs == 1..MaxRows

\* a result stays inside the explored part of the id sequence and the clock
WithinBounds(seq, clk) == seq <= MaxRows /\ clk <= MaxClock

(***************************************************************************)
(* CreateUser.                                                             *)
(***************************************************************************)
ErrConflict == <<"username or email already exists">>

\* the models.User that CreateUser assembles from the request
UserOfRequest(req, hash) ==
    [ZeroUser EXCEPT
       !.username = req.username, !.email = req.email,
       !.password_hash = hash, !.role = req.role, !.is_active = TRUE,
       !.full_name = req.full_name, !.phone = req.phone,
       !.address = req.address, !.date_of_birth = req.date_of_birth,
       !.gender = req.gender,
       !.employee_id = req.employee_id, !.student_id = req.student_id,
       !.class_level = req.class_level, !.academic_year = req.academic_year,
       !.parent_name = req.parent_name, !.parent_phone = req.parent_phone,
       !.specialization = req.specialization]

\* CreateUser up to the assembled candidate: the existence check, the hash
CreateUserPrepare(req) ==
    LET h == HashPassword(req.password)
    IN  IF CheckUserExists(req.username, req.email)
          THEN [err |-> ErrConflict, user |-> NULL]
        ELSE IF h.err # NoError
          THEN [err |-> <<"failed to hash password: ">> \o h.err, user |-> NULL]
        ELSE [err |-> NoError, user |-> Some(UserOfRequest(req, h.hash))]

\* UserHandler.CreateUser: the status it answers for the service's error
CreateUserStatus(err) ==
    IF err = NoError THEN 201
    ELSE IF err = ErrConflict THEN 409
    ELSE 500

\* what an operation leaves behind: the table, the id sequence, the clock
\* and its response
Outcome(tbl, seq, clk, resp) ==
    [tbl |-> tbl, idseq |-> seq, clock |-> clk, resp |-> resp]

\* an operation that answers without writing
Unchanged(resp) == Outcome(users, idseq, clock, resp)

\* the step that takes the store to an outcome
Apply(o) ==
    /\ WithinBounds(o.idseq, o.clock)
    /\ users' = o.tbl
    /\ idseq' = o.idseq
    /\ clock' = o.clock
    /\ last' = o.resp

\* CreateUser from db.Create on: the insert and the wrapped error
CreateUserStore(u) ==
    LET r == DbCreate(users, idseq, clock, u)
        e == <<"failed to create user: ">> \o r.err
    IN  Outcome(r.tbl, r.idseq, r.clock,
                IF r.err # NoError
                  THEN Response("CreateUser", e, CreateUserStatus(e), NULL)
                  ELSE Response("CreateUser", NoError, CreateUserStatus(NoError),
                                Some(r.row)))

\* UserService.CreateUser behind UserHandler.CreateUser, as one step
CreateUserOutcome(req) ==
    LET p == CreateUserPrepare(req)
    IN  IF p.err # NoError
          THEN Unchanged(Response("CreateUser", p.err, CreateUserStatus(p.err), NULL))
          ELSE CreateUserStore(p.user[1])

\* validator.Struct on a CreateUserRequest: the tags on username, password,
\* role, full_name, phone and gender, lengths counted in characters (the
\* emails of the requests explored are well-formed addresses)
ValidatorPasses(req) ==
    /\ Len(req.username) >= 3 /\ Len(req.username) <= 50
    /\ Len(req.password) >= 8
    /\ req.role \in Roles
    /\ req.full_name = NULL \/ Len(req.full_name[1]) \in 2..255
    /\ req.phone = NULL \/ Len(req.phone[1]) \in 10..20
    /\ req.gender = NULL \/ req.gender[1] \in Genders

\* UserHandler.CreateUser on a request that binds: 400 when the validator
\* turns it down, else the service and the status for its error
CreateUserRouteOutcome(req) ==
    IF ValidatorPasses(req)
      THEN CreateUserOutcome(req)
      ELSE Unchanged(Response("CreateUser", <<"Validation failed">>, 400, NULL))

\* a POST /users request
CreateUserRoute(req) ==
    /\ Apply(CreateUserRouteOutcome(req))
    /\ UNCHANGED pending

\* a whole CreateUser request, no other statement in between
CreateUser(req) ==
    /\ Apply(CreateUserOutcome(req))
    /\ UNCHANGED pending

\* a CreateUser request that has passed the existence check and hashed the
\* password, and has not yet reached db.Create
CreateUserBegin(req) ==
    /\ pending = NULL
    /\ CreateUserPrepare(req).err = NoError
    /\ pending' = Some([kind |-> "create", user |-> CreateUserPrepare(req).user[1]])
    /\ UNCHANGED <<users, idseq, clock, last>>

\* that request reaching db.Create
CreateUserFinish ==
    /\ pending # NULL
    /\ pending[1].kind = "create"
    /\ Apply(CreateUserStore(pending[1].user))
    /\ pending' = NULL

(***************************************************************************)
(* UpdateUser.                                                             *)
(***************************************************************************)
\* whether updateData has the key f: the request supplies the field
InUpdateData(req, f) == f \in UpdateFields /\ req[f] # NULL

\* the keys of updateData
UpdateData(req) == {f \in UpdateFields : InUpdateData(req, f)}

\* a faulty Assigned that writes every field of the request, so that an
\* absent field nulls the column
AssignedAll(r, req, now) ==
    [f \in DOMAIN r |->
        IF f \in UpdateFields THEN req[f]
        ELSE IF f = "updated_at" THEN now
        ELSE r[f]]

\* a faulty SET clause that makes the record an administrator as well
AssignedWithRole(r, req, now) ==
    [f \in DOMAIN r |->
        IF InUpdateData(req, f) THEN req[f]
        ELSE IF f = "updated_at" THEN now
        ELSE IF f = "role" THEN "admin"
        ELSE r[f]]

\* the SET clause of Updates(updateData): the supplied columns and updated_at
Assigned(r, req, now) ==
    [f \in DOMAIN r |->
        IF InUpdateData(req, f) THEN req[f]
        ELSE IF f = "updated_at" THEN now
        ELSE r[f]]

\* db.Model(&user).Updates(updateData) on the row WHERE id = user.id AND
\* deleted_at IS NULL: [err, tbl, clock, rows, user]; GORM assigns the
\* values to the in-memory user whatever the statement affects
DbUpdates(tbl, clk, user, req) ==
    LET hit  == {r \in Live(tbl) : r.id = user.id}
        mem  == Assigned(user, req, clk + 1)
        hook == BeforeUpdate(user, FALSE)
    IN  IF hook # NoError
          THEN [err |-> hook, tbl |-> tbl, clock |-> clk, rows |-> 0, user |-> user]
        ELSE IF hit = {}
          THEN [err |-> NoError, tbl |-> tbl, clock |-> clk, rows |-> 0, user |-> mem]
        ELSE LET old == CHOOSE r \in hit : TRUE
                 new == Assigned(old, req, clk + 1)
             IN  IF PgError(tbl \ {old}, new) # NoError
                   THEN [err |-> PgError(tbl \ {old}, new), tbl |-> tbl,
                         clock |-> clk, rows |-> 0, user |-> mem]
                   ELSE [err |-> NoError, tbl |-> (tbl \ {old}) \cup {new},
                         clock |-> clk + 1, rows |-> 1, user |-> mem]

\* UserHandler.UpdateUser / UpdateMyProfile: every error is a 500
UpdateUserStatus(err) == IF err = NoError THEN 200 ELSE 500

\* the closing s.db.First(&user, userID), its error ignored: the row if it
\* is still there, the in-memory user otherwise
Refetched(tbl, user) ==
    IF \E r \in Live(tbl) : r.id = user.id
      THEN CHOOSE r \in Live(tbl) : r.id = user.id
      ELSE user

\* UpdateUser from the Updates statement to its return, for the user that
\* First loaded: the wrapped error, or the user fetched again
UpdateUserStore(user, req) ==
    LET w == DbUpdates(users, clock, user, req)
        e == <<"failed to update user: ">> \o w.err
    IN  Outcome(w.tbl, idseq, w.clock,
                IF w.err # NoError
                  THEN Response("UpdateUser", e, UpdateUserStatus(e), NULL)
                  ELSE Response("UpdateUser", NoError, UpdateUserStatus(NoError),
                                Some(Refetched(w.tbl, w.user))))

\* UserService.UpdateUser behind UserHandler.UpdateUser, as one step
UpdateUserOutcome(id, req) ==
    IF GetUserByID(id).err # NoError
      THEN Unchanged(Response("UpdateUser", GetUserByID(id).err,
                              UpdateUserStatus(GetUserByID(id).err), NULL))
      ELSE UpdateUserStore(GetUserByID(id).user[1], req)

\* a whole UpdateUser request, no other statement in between
UpdateUser(id, req) ==
    /\ Apply(UpdateUserOutcome(id, req))
    /\ UNCHANGED pending

\* an UpdateUser request that has loaded the user and not yet updated it
UpdateUserBegin(id, req) ==
    /\ pending = NULL
    /\ GetUserByID(id).err = NoError
    /\ pending' = Some([kind |-> "update", phase |-> "loaded",
                        user |-> GetUserByID(id).user[1], req |-> req])
    /\ UNCHANGED <<users, idseq, clock, last>>

\* that request running its Updates statement: it answers on an error and
\* goes on to fetch the user otherwise
UpdateUserApply ==
    /\ pending # NULL
    /\ pending[1].kind = "update"
    /\ pending[1].phase = "loaded"
    /\ LET w == DbUpdates(users, clock, pending[1].user, pending[1].req)
           o == UpdateUserStore(pending[1].user, pending[1].req)
       IN  IF w.err # NoError
             THEN /\ Apply(o)
                  /\ pending' = NULL
             ELSE /\ Apply([o EXCEPT !.resp = last])
                  /\ pending' = Some([pending[1] EXCEPT !.phase = "written",
                                                        !.user = w.user])

\* that request fetching the user again and returning it
UpdateUserFinish ==
    /\ pending # NULL
    /\ pending[1].kind = "update"
    /\ pending[1].phase = "written"
    /\ Apply(Unchanged(Response("UpdateUser", NoError, UpdateUserStatus(NoError),
                                Some(Refetched(users, pending[1].user)))))
    /\ pending' = NULL

(***************************************************************************)
(* The single-statement mutations.                                         *)
(***************************************************************************)
\* db.Model(&User{}).Where("id = ?", id).Update(col, val): the table after
\* the statement, which also sets updated_at
DbUpdateColumn(tbl, id, col, val, now) ==
    {IF r.id = id /\ NotDeleted(r)
       THEN [r EXCEPT ![col] = val, !.updated_at = now]
       ELSE r : r \in tbl}

\* RowsAffected of a statement WHERE id = ? AND deleted_at IS NULL
RowsAffected(tbl, id) == Cardinality({r \in Live(tbl) : r.id = id})

\* the error of the service methods that check RowsAffected
AffectedError(tbl, id) ==
    IF RowsAffected(tbl, id) = 0 THEN ErrNotFound ELSE NoError

\* a faulty single-column update that reports success when no row matched
UpdateColumnSilent(op, status, id, col, val) ==
    Outcome(DbUpdateColumn(users, id, col, val, clock + 1), idseq, clock + 1,
            Response(op, NoError, status, NULL))

\* a service method of one single-column update
UpdateColumn(op, status, id, col, val) ==
    IF RowsAffected(users, id) = 0
      THEN Unchanged(Response(op, ErrNotFound, status, NULL))
      ELSE Outcome(DbUpdateColumn(users, id, col, val, clock + 1), idseq, clock + 1,
                   Response(op, NoError, status, NULL))

\* UserHandler.UploadProfilePhoto: every error is a 500
UpdateUserPhotoStatus(err) == IF err = NoError THEN 200 ELSE 500

UpdateUserPhotoOutcome(id, path) ==
    UpdateColumn("UpdateUserPhoto", UpdateUserPhotoStatus(AffectedError(users, id)),
                 id, "profile_photo", Some(path))

UpdateUserPhoto(id, path) ==
    /\ Apply(UpdateUserPhotoOutcome(id, path))
    /\ UNCHANGED pending

\* UserHandler.DeactivateUser: 404 for "user not found", 500 otherwise
DeactivateUserStatus(err) ==
    IF err = NoError THEN 200
    ELSE IF err = ErrNotFound THEN 404
    ELSE 500

\* UserService.DeactivateUser behind UserHandler.DeactivateUser
DeactivateUserOutcome(id) ==
    UpdateColumn("DeactivateUser", DeactivateUserStatus(AffectedError(users, id)),
                 id, "is_active", FALSE)

DeactivateUser(id) ==
    /\ Apply(DeactivateUserOutcome(id))
    /\ UNCHANGED pending

ActivateUserOutcome(id) == UpdateColumn("ActivateUser", 0, id, "is_active", TRUE)

ActivateUser(id) ==
    /\ Apply(ActivateUserOutcome(id))
    /\ UNCHANGED pending

\* db.Delete(&User{}, id): the tombstone on the row, nothing else
DbDelete(tbl, id, now) ==
    {IF r.id = id /\ NotDeleted(r)
       THEN [r EXCEPT !.deleted_at = Some(now)]
       ELSE r : r \in tbl}

DeleteUserOutcome(id) ==
    IF RowsAffected(users, id) = 0
      THEN Unchanged(Response("DeleteUser", ErrNotFound, 0, NULL))
      ELSE Outcome(DbDelete(users, id, clock + 1), idseq, clock + 1,
                   Response("DeleteUser", NoError, 0, NULL))

DeleteUser(id) ==
    /\ Apply(DeleteUserOutcome(id))
    /\ UNCHANGED pending

\* what the router binds to DELETE /users/:id: UserHandler.DeactivateUser
DeleteUsersRouteOutcome(id) == DeactivateUserOutcome(id)

\* a DELETE /users/:id request
DeleteUsersRoute(id) ==
    /\ Apply(DeleteUsersRouteOutcome(id))
    /\ UNCHANGED pending

(***************************************************************************)
(* BulkCreateUsers.                                                        *)
(***************************************************************************)
\* the batch size BulkCreateUsers passes to CreateInBatches
BatchSize == 100

Min(a, b) == IF a < b THEN a ELSE b

\* a faulty FirstInvalid that reports the last candidate that fails
FirstInvalidLast(list) ==
    IF \E i \in 1..Len(list) : ValidateRoleRequiredFields(list[i]) # NoError
      THEN CHOOSE i \in 1..Len(list) :
             /\ ValidateRoleRequiredFields(list[i]) # NoError
             /\ \A j \in (i + 1)..Len(list) :
                   ValidateRoleRequiredFields(list[j]) = NoError
      ELSE 0

\* the 1-based position of the first candidate that fails, 0 if none does
FirstInvalid(list) ==
    IF \E i \in 1..Len(list) : ValidateRoleRequiredFields(list[i]) # NoError
      THEN CHOOSE i \in 1..Len(list) :
             /\ ValidateRoleRequiredFields(list[i]) # NoError
             /\ \A j \in 1..(i - 1) : ValidateRoleRequiredFields(list[j]) = NoError
      ELSE 0

\* the position of the first row of an INSERT that breaks a constraint,
\* against the table and the rows before it; 0 if none does
FirstRejected(tbl, new) ==
    LET bad == {i \in 1..Len(new) :
                  PgError(tbl \cup {new[j] : j \in 1..(i - 1)}, new[i]) # NoError}
    IN  IF bad = {} THEN 0 ELSE CHOOSE i \in bad : \A j \in bad : i <= j

\* the INSERT of the rows new, an atomic statement: [err, tbl, idseq]
InsertNew(tbl, seq, new, k) ==
    IF k = 0
      THEN [err |-> NoError, tbl |-> tbl \cup {new[i] : i \in 1..Len(new)},
            idseq |-> seq + Len(new)]
      ELSE [err |-> PgError(tbl \cup {new[j] : j \in 1..(k - 1)}, new[k]),
            tbl |-> tbl, idseq |-> seq + k]

\* the rows of one INSERT, with their ids in order and the time of the
\* statement: [err, tbl, idseq]
InsertRows(tbl, seq, now, rows) ==
    InsertNew(tbl, seq, [i \in 1..Len(rows) |-> NewRow(rows[i], seq + i, now)],
              FirstRejected(tbl, [i \in 1..Len(rows) |-> NewRow(rows[i], seq + i, now)]))

\* one batch of CreateInBatches: the BeforeCreate hooks of its rows, then
\* one INSERT whose rows share the time of the statement
InsertBatch(tbl, seq, clk, rows) ==
    IF \E i \in 1..Len(rows) : BeforeCreate(rows[i]) # NoError
      THEN [err |-> BeforeCreate(rows[CHOOSE i \in 1..Len(rows) :
                        /\ BeforeCreate(rows[i]) # NoError
                        /\ \A j \in 1..(i - 1) : BeforeCreate(rows[j]) = NoError]),
            tbl |-> tbl, idseq |-> seq, clock |-> clk]
      ELSE LET r == InsertRows(tbl, seq, clk + 1, rows)
           IN  [err |-> r.err, tbl |-> r.tbl, idseq |-> r.idseq,
                clock |-> IF r.err = NoError THEN clk + 1 ELSE clk]

\* the batches of db.CreateInBatches(&users, size), in order, stopping at
\* the first that fails: [err, tbl, idseq, clock, batches]
RECURSIVE InsertBatches(_, _, _, _, _, _)
InsertBatches(tbl, seq, clk, list, size, done) ==
    IF list = <<>>
      THEN [err |-> NoError, tbl |-> tbl, idseq |-> seq, clock |-> clk,
            batches |-> done]
      ELSE LET n == Min(size, Len(list))
               b == InsertBatch(tbl, seq, clk, SubSeq(list, 1, n))
           IN  IF b.err # NoError
                 THEN [err |-> b.err, tbl |-> b.tbl, idseq |-> b.idseq,
                       clock |-> b.clock, batches |-> done]
                 ELSE InsertBatches(b.tbl, b.idseq, b.clock,
                                    SubSeq(list, n + 1, Len(list)), size,
                                    Append(done, n))

\* a faulty CreateInBatches that sends every row in one batch
CreateInBatchesAtOnce(tbl, seq, clk, list, size) ==
    LET r == InsertBatches(tbl, seq, clk, list, Len(list) + 1, <<>>)
    IN  IF r.err # NoError
          THEN [err |-> r.err, tbl |-> tbl, idseq |-> r.idseq, clock |-> clk,
                batches |-> r.batches]
          ELSE r

\* db.CreateInBatches: the batches run in one transaction, so a failing
\* batch takes back the rows of the batches before it (the ids stay used)
CreateInBatches(tbl, seq, clk, list, size) ==
    LET r == InsertBatches(tbl, seq, clk, list, size, <<>>)
    IN  IF r.err # NoError
          THEN [err |-> r.err, tbl |-> tbl, idseq |-> r.idseq, clock |-> clk,
                batches |-> r.batches]
          ELSE r

BulkCreateUsersOutcome(list) ==
    IF FirstInvalid(list) # 0
      THEN Unchanged(Response("BulkCreateUsers",
                       <<"validation failed for user ", ToString(FirstInvalid(list)), ": ">>
                         \o ValidateRoleRequiredFields(list[FirstInvalid(list)]),
                       0, NULL))
      ELSE LET r == CreateInBatches(users, idseq, clock, list, BatchSize)
           IN  Outcome(r.tbl, r.idseq, r.clock,
                       Response("BulkCreateUsers",
                                IF r.err # NoError
                                  THEN <<"bulk create failed: ">> \o r.err
                                  ELSE NoError,
                                0, NULL))

BulkCreateUsers(list) ==
    /\ Apply(BulkCreateUsersOutcome(list))
    /\ UNCHANGED pending

\* a candidate of a bulk import: the user a creation request would give
Candidate(req) == UserOfRequest(req, Digest(req.password))

\* the imports explored
BulkInputs ==
    { <<Candidate(AdminProfile(Login("admin", "admin@pesantren.com", PwAdmin))),
        Candidate(TeacherProfile(Login("u1", "u1@x.id", PwAdmin)))>>,
      <<Candidate(AdminProfile(Login("u1", "u1@x.id", PwAdmin))),
        Candidate(AdminProfile(Login("u1", "admin@pesantren.com", PwAdmin)))>>,
      <<Candidate(AdminProfile(Login("admin", "admin@pesantren.com", PwAdmin))),
        Candidate([TeacherProfile(Login("u1", "u1@x.id", PwAdmin))
                     EXCEPT !.specialization = NULL])>> }

(***************************************************************************)
(* SeedData, run by main before the server starts.                         *)
(***************************************************************************)
SeedAdmin(hash) ==
    [ZeroUser EXCEPT !.username = "admin", !.email = "admin@pesantren.com",
                     !.password_hash = hash, !.role = "admin",
                     !.is_active = TRUE,
                     !.full_name = Some("System Administrator")]

SeedDataOutcome ==
    LET h == HashPassword(PwAdmin)
        r == DbCreate(users, idseq, clock, SeedAdmin(h.hash))
    IN  IF Cardinality(Live(users)) # 0
          THEN Unchanged(Response("SeedData", NoError, 0, NULL))
        ELSE IF h.err # NoError
          THEN Unchanged(Response("SeedData",
                           <<"failed to hash admin password: ">> \o h.err, 0, NULL))
        ELSE Outcome(r.tbl, r.idseq, r.clock,
                     Response("SeedData",
                              IF r.err # NoError
                                THEN <<"failed to create admin user: ">> \o r.err
                                ELSE NoError,
                              0, NULL))

\* main starting again: no request is in flight
SeedData ==
    /\ pending = NULL
    /\ Apply(SeedDataOutcome)
    /\ UNCHANGED pending

(***************************************************************************)
(* Listings.  A query without ORDER BY returns its rows in an order the    *)
(* database chooses, so its result is the set of rows; a query with ORDER  *)
(* BY returns one of the sequences the ordering allows.                    *)
(***************************************************************************)
\* the LIMIT a non-positive limit puts on a query: none (0 stands for no
\* LIMIT clause) for a negative one, and for zero either none or LIMIT 0,
\* as the GORM release in use builds it
NoLimit == 0

LimitZero == -1

Limits(limit) ==
    IF limit > 0 THEN {limit}
    ELSE IF limit = 0 THEN {NoLimit, LimitZero}
    ELSE {NoLimit}

\* the rows a sequence keeps after OFFSET offset (applied when positive)
\* and the LIMIT lim
Window(s, offset, lim) ==
    LET from == IF offset > 0 THEN offset ELSE 0
        upto == IF lim = NoLimit THEN Len(s)
                ELSE IF lim = LimitZero THEN from
                ELSE Min(Len(s), from + lim)
    IN  IF from >= Len(s) THEN <<>> ELSE SubSeq(s, from + 1, upto)

\* ORDER BY created_at DESC: the arrangements of rows with later creation
\* times first, rows of one creation time in any order
OrderByCreatedAtDesc(rows) ==
    { s \in [1..Cardinality(rows) -> rows] :
        /\ \A i, j \in DOMAIN s : i < j => s[i] # s[j]
        /\ \A i, j \in DOMAIN s : i < j => s[i].created_at >= s[j].created_at }

\* WHERE is_active = true, with the role filter when a role is given
ActiveOfRole(role) ==
    {r \in Live(users) : r.is_active /\ (role = "" \/ r.role = role)}

\* a * b in an int of 32 bits, for 0 <= a and 0 <= b < 2^15: the product
\* modulo 2^32, read as a signed number
MulWrap(a, b) ==
    LET low == (a % 65536) * b
        hi  == ((a \div 65536) * b + (low \div 65536)) % 65536
    IN  IF hi >= 32768 THEN (hi - 65536) * 65536 + (low % 65536)
        ELSE hi * 65536 + (low % 65536)

\* offset := (page - 1) * limit
Offset(page, limit) ==
    IF page >= 1 /\ limit >= 0 /\ limit < 32768
      THEN MulWrap(page - 1, limit)
      ELSE (page - 1) * limit

\* UserService.GetAllUsers: the pages it can return with the total count
GetAllUsers(page, limit, role) ==
    { [users |-> Window(s, Offset(page, limit), lim),
       total |-> Cardinality(ActiveOfRole(role))]
        : s \in OrderByCreatedAtDesc(ActiveOfRole(role)),
          lim \in Limits(limit) }

\* a faulty GetUsersByRole that lists deactivated records too
GetUsersByRoleAnyStatus(role) == {r \in Live(users) : r.role = role}

\* UserService.GetUsersByRole
GetUsersByRole(role) == {r \in Live(users) : r.role = role /\ r.is_active}

\* a faulty GetTeachers that lists every active record
GetTeachersAnyRole == {r \in Live(users) : r.is_active}

\* UserService.GetTeachers
GetTeachers ==
    {r \in Live(users) : /\ r.role = "teacher" /\ r.is_active
                         /\ r.employee_id # NULL /\ r.specialization # NULL}

\* UserService.GetStudents
GetStudents ==
    {r \in Live(users) : /\ r.role = "student" /\ r.is_active
                         /\ r.student_id # NULL /\ r.class_level # NULL}

\* UserService.GetStudentsByClass
GetStudentsByClass(classLevel) ==
    {r \in Live(users) : /\ r.role = "student" /\ r.is_active
                         /\ r.class_level = Some(classLevel)}

\* the pairs (text, query) for which text contains query regardless of
\* case, over the names, usernames and emails the model stores
Containing ==
    { <<"admin", "ADM">>, <<"admin@pesantren.com", "ADM">>,
      <<"System Administrator", "ADM">>, <<"u1", "u1">>, <<"u1@x.id", "u1">>,
      <<"admin@pesantren.com", "@">>, <<"u1@x.id", "@">>,
      <<"b1", "b1">>, <<"b1@x.id", "b1">>, <<"b1@x.id", "@">> }

\* column ILIKE '%' || query || '%': false on a null column; in the query,
\* % matches any text and _ any one character
ILike(col, query) ==
    /\ col # NULL
    /\ \/ query \in {"", "%"}
       \/ query = "_" /\ col[1] # ""
       \/ <<col[1], query>> \in Containing

Matching(query, role) ==
    {r \in ActiveOfRole(role) :
        \/ ILike(r.full_name, query)
        \/ ILike(Some(r.username), query)
        \/ ILike(Some(r.email), query)}

\* UserService.SearchUsers: without ORDER BY, LIMIT keeps any limit rows of
\* the matching ones
SearchUsers(query, role, limit) ==
    UNION { IF lim = NoLimit THEN {Matching(query, role)}
            ELSE IF lim = LimitZero THEN {{}}
            ELSE { found \in SUBSET Matching(query, role) :
                     Cardinality(found)
                       = Min(lim, Cardinality(Matching(query, role))) }
            : lim \in Limits(limit) }

\* UserService.GetClassList
GetClassList ==
    { r.class_level[1] : r \in {x \in Live(users) : /\ x.role = "student"
                                                     /\ x.is_active
                                                     /\ x.class_level # NULL} }

\* UserService.GetSpecializationList
GetSpecializationList ==
    { r.specialization[1] :
        r \in {x \in Live(users) : /\ x.role = "teacher" /\ x.is_active
                                   /\ x.specialization # NULL} }

\* the number of rows a Count on the model finds
Count(rows) == Cardinality(rows)

\* a faulty GetUserStats whose inactive count takes in soft-deleted rows
GetUserStatsWithDeleted ==
    [total_active |-> Count({r \in Live(users) : r.is_active}),
     admins   |-> Count({r \in Live(users) : r.role = "admin" /\ r.is_active}),
     teachers |-> Count({r \in Live(users) : r.role = "teacher" /\ r.is_active}),
     students |-> Count({r \in Live(users) : r.role = "student" /\ r.is_active}),
     inactive |-> Count({r \in users : ~r.is_active})]

\* UserService.GetUserStats: five counts, one statement each
GetUserStats ==
    [total_active |-> Count({r \in Live(users) : r.is_active}),
     admins   |-> Count({r \in Live(users) : r.role = "admin" /\ r.is_active}),
     teachers |-> Count({r \in Live(users) : r.role = "teacher" /\ r.is_active}),
     students |-> Count({r \in Live(users) : r.role = "student" /\ r.is_active}),
     inactive |-> Count({r \in Live(users) : ~r.is_active})]

(***************************************************************************)
(* The list and search requests.  A query parameter is absent (NULL) or    *)
(* the sequence of its characters.                                         *)
(***************************************************************************)
\* the largest and the least int (of a 32-bit build; the parse saturates in
\* the same way at 64 bits)
IntMax == 2147483647

IntMin == -IntMax - 1

DigitOf ==
    ("0" :> 0) @@ ("1" :> 1) @@ ("2" :> 2) @@ ("3" :> 3) @@ ("4" :> 4) @@
    ("5" :> 5) @@ ("6" :> 6) @@ ("7" :> 7) @@ ("8" :> 8) @@ ("9" :> 9)

\* the number a sequence of digits denotes from acc on, -1 once it is
\* beyond IntMax
RECURSIVE Magnitude(_, _)
Magnitude(s, acc) ==
    IF s = <<>> THEN acc
    ELSE IF acc > (IntMax - DigitOf[Head(s)]) \div 10 THEN -1
    ELSE Magnitude(Tail(s), 10 * acc + DigitOf[Head(s)])

\* strconv.Atoi with the error dropped (n, _ := strconv.Atoi(s)): 0 for an
\* empty text, a lone sign or a text with a character that is no digit, the
\* nearest int for a number out of range
Atoi(s) ==
    LET signed == s # <<>> /\ Head(s) \in {"+", "-"}
        digits == IF signed THEN Tail(s) ELSE s
        mag    == Magnitude(digits, 0)
    IN  IF digits = <<>> \/ \E i \in DOMAIN digits : digits[i] \notin DOMAIN DigitOf
          THEN 0
        ELSE IF signed /\ Head(s) = "-"
          THEN IF mag = -1 THEN IntMin ELSE -mag
        ELSE IF mag = -1 THEN IntMax ELSE mag

\* gin's c.DefaultQuery: the default for a parameter that is absent
DefaultQuery(q, default) == IF q = NULL THEN default ELSE q

\* a faulty clamp that caps the page size at 100
ListUsersArgsCapped(pageQ, limitQ) ==
    LET page  == Atoi(DefaultQuery(pageQ, <<"1">>))
        limit == Atoi(DefaultQuery(limitQ, <<"1", "0">>))
    IN  [page |-> IF page < 1 THEN 1 ELSE page,
         limit |-> IF limit < 1 THEN 10 ELSE IF limit > 100 THEN 100 ELSE limit]

\* handlers.GetAllUsers: the page and limit it calls the service with
ListUsersArgs(pageQ, limitQ) ==
    LET page  == Atoi(DefaultQuery(pageQ, <<"1">>))
        limit == Atoi(DefaultQuery(limitQ, <<"1", "0">>))
    IN  [page |-> IF page < 1 THEN 1 ELSE page,
         limit |-> IF limit < 1 \/ limit > 100 THEN 10 ELSE limit]

\* the body of the handler's answer: the page, the pagination block and,
\* for reference, the query the request came with
ListUsersBody(pageQ, limitQ, role, a, res) ==
    [query |-> [page |-> pageQ, limit |-> limitQ, role |-> role],
     data |-> [i \in DOMAIN res.users |-> ToResponse(res.users[i])],
     page |-> a.page, limit |-> a.limit, total |-> res.total,
     total_pages |-> (res.total + a.limit - 1) \div a.limit]

\* handlers.GetAllUsers: a GET /users request
ListUsersRoute(pageQ, limitQ, role) ==
    \E a \in {ListUsersArgs(pageQ, limitQ)} :
        \E res \in GetAllUsers(a.page, a.limit, role) :
            /\ last' = Response("GetAllUsers", NoError, 200,
                                Some(ListUsersBody(pageQ, limitQ, role, a, res)))
            /\ UNCHANGED <<users, idseq, clock, pending>>

\* handlers.GetUserStats: a GET /users/stats request
GetUserStatsRoute ==
    /\ last' = Response("GetUserStats", NoError, 200, Some(GetUserStats))
    /\ UNCHANGED <<users, idseq, clock, pending>>

\* handlers.SearchUsers: the limit it calls the service with
SearchUsersLimit(limitQ) ==
    LET limit == Atoi(DefaultQuery(limitQ, <<"2", "0">>))
    IN  IF limit > 100 THEN 100 ELSE limit

\* handlers.SearchUsers: the answers to a GET /search/users request, q and
\* role the texts c.Query returns ("" for a parameter left out)
SearchUsersRouteOutcomes(q, role, limitQ) ==
    IF q = ""
      THEN {Unchanged(Response("SearchUsers", <<"Search query is required">>,
                               400, NULL))}
      ELSE {Unchanged(Response("SearchUsers", NoError, 200,
                Some([asked |-> [q |-> q, role |-> role, limit |-> limitQ],
                      data |-> {ToResponse(r) : r \in found},
                      query |-> q, role |-> role,
                      count |-> Cardinality(found)])))
              : found \in SearchUsers(q, role, SearchUsersLimit(limitQ))}

\* a GET /search/users request
SearchUsersRoute(q, role, limitQ) ==
    \E o \in SearchUsersRouteOutcomes(q, role, limitQ) :
        /\ Apply(o)
        /\ UNCHANGED pending

(***************************************************************************)
(* The request layer: the middleware in front of the protected routes.     *)
(* An Authorization header is the sequence of its pieces, a piece being a  *)
(* space or a text without spaces; the empty sequence is the header left   *)
(* out or empty.                                                           *)
(***************************************************************************)
\* strings.Split(header, " "): the texts between the spaces
RECURSIVE Split(_)
Split(h) ==
    IF h = <<>> THEN <<"">>
    ELSE LET rest == Split(Tail(h))
         IN  IF Head(h) = " " THEN <<"">> \o rest
             ELSE <<Head(h) \o Head(rest)>> \o Tail(rest)

\* what a middleware leaves: status 0 after c.Next(), else the status and
\* the error it aborted with; ctx is the identity set on the context
Continue(ctx) == [status |-> 0, err |-> NoError, ctx |-> ctx]

Abort(status, msg) == [status |-> status, err |-> <<msg>>, ctx |-> NULL]

\* the identity in an answer of the auth service
AuthUser(id, role) ==
    [id |-> id, username |-> "user1", email |-> "user1@x.id", role |-> role]

\* AuthClient.ValidateToken: an error (the request failed, a status other
\* than 200, a body that does not decode) or the decoded answer
ValidateTokenError == [err |-> TRUE, valid |-> FALSE, user |-> AuthUser(0, "")]

ValidateTokenAnswer(valid, user) == [err |-> FALSE, valid |-> valid, user |-> user]

\* middleware.AuthMiddleware on a header, answer being what ValidateToken
\* returns for the token
AuthMiddleware(header, answer) ==
    LET tokenParts == Split(header)
    IN  IF header = <<>>
          THEN Abort(401, "Authorization header required")
        ELSE IF Len(tokenParts) # 2 \/ tokenParts[1] # "Bearer"
          THEN Abort(401, "Invalid authorization header format")
        ELSE IF answer.err
          THEN Abort(401, "Invalid token")
        ELSE IF ~answer.valid
          THEN Abort(401, "Token validation failed")
        ELSE Continue(Some([user_id |-> answer.user.id,
                            username |-> answer.user.username,
                            email |-> answer.user.email,
                            role |-> answer.user.role]))

\* a faulty RoleMiddleware that lets every role through
RoleMiddlewareAnyRole(allowedRoles, ctx) ==
    IF ctx = NULL
      THEN Abort(401, "User role not found in context")
      ELSE Continue(ctx)

\* middleware.RoleMiddleware(allowedRoles...)
RoleMiddleware(allowedRoles, ctx) ==
    IF ctx = NULL
      THEN Abort(401, "User role not found in context")
    ELSE IF ctx[1].role \in allowedRoles
      THEN Continue(ctx)
    ELSE Abort(403, "Insufficient permissions")

\* middleware.AdminOnly and middleware.TeacherOnly: the roles they allow
AdminOnly == {"admin"}

TeacherOnly == {"admin", "teacher"}

\* setupRoutes: the routes of the protected group, each with the roles of
\* its group's RoleMiddleware (NULL for a route with AuthMiddleware alone)
\* and its handler
Route(method, path, allowed, handler) ==
    [method |-> method, path |-> path, allowed |-> allowed, handler |-> handler]

Routes ==
    { Route("GET", "/users/me", NULL, "GetMyProfile"),
      Route("PUT", "/users/me", NULL, "UpdateMyProfile"),
      Route("POST", "/users/me/photo", NULL, "UploadProfilePhoto"),
      Route("GET", "/users/:id", Some(TeacherOnly), "GetUserByID"),
      Route("GET", "/teachers", Some(TeacherOnly), "GetTeachers"),
      Route("GET", "/students", Some(TeacherOnly), "GetStudents"),
      Route("GET", "/students/class/:class", Some(TeacherOnly),
            "GetStudentsByClass"),
      Route("GET", "/classes", Some(TeacherOnly), "GetClassList"),
      Route("GET", "/users", Some(AdminOnly), "GetAllUsers"),
      Route("POST", "/users", Some(AdminOnly), "CreateUser"),
      Route("PUT", "/users/:id", Some(AdminOnly), "UpdateUser"),
      Route("DELETE", "/users/:id", Some(AdminOnly), "DeactivateUser"),
      Route("GET", "/users/stats", Some(AdminOnly), "GetUserStats"),
      Route("GET", "/search/users", Some(AdminOnly), "SearchUsers") }

\* validator.Struct on an UpdateUserRequest: the tags on full_name, phone,
\* address and gender
UpdateValidatorPasses(req) ==
    /\ req.full_name = NULL \/ Len(req.full_name[1]) \in 2..255
    /\ req.phone = NULL \/ Len(req.phone[1]) \in 10..20
    /\ req.address = NULL \/ Len(req.address[1]) <= 1000
    /\ req.gender = NULL \/ req.gender[1] \in Genders

\* UserHandler.UpdateUser and UpdateMyProfile on a request that binds: 400
\* when the validator turns it down, else the service
UpdateUserRouteOutcome(op, id, req) ==
    IF UpdateValidatorPasses(req)
      THEN [UpdateUserOutcome(id, req) EXCEPT !.resp.op = op]
      ELSE Unchanged(Response(op, <<"Validation failed">>, 400, NULL))

\* the answer of a handler that reads: the error of the service, the status
\* and the data
Answer(op, err, status, data) ==
    Unchanged(Response(op, err, status, IF err = NoError THEN Some(data) ELSE NULL))

\* UserHandler.GetMyProfile and GetUserByID: 404 for a user not found
GetProfileOutcome(op, id) ==
    LET g == GetUserByID(id)
    IN  IF g.err # NoError THEN Answer(op, g.err, 404, NULL)
        ELSE Answer(op, NoError, 200, ToResponse(g.user[1]))

\* the inputs the requests to the protected routes carry
RouteCreateReqs ==
    { AdminProfile(Login("user1", "user1@x.id", PwAdmin)),
      [StudentProfile(Login("user2", "user2@x.id", PwAdmin))
         EXCEPT !.parent_phone = Some("0811000011")],
      TeacherProfile(Login("user1", "user3@x.id", PwShort)) }

RouteUpdateReqs ==
    { Supplying([address |-> "a"]), Supplying([gender |-> "x"]) }

\* the handler of a route, reached: its outcomes over the inputs explored,
\* ctx the identity on the context
HandlerOutcomes(handler, ctx) ==
    CASE handler = "GetMyProfile" ->
           {GetProfileOutcome(handler, ctx.user_id)}
      [] handler = "UpdateMyProfile" ->
           {UpdateUserRouteOutcome(handler, ctx.user_id, req) : req \in RouteUpdateReqs}
      [] handler = "UploadProfilePhoto" ->
           {[UpdateUserPhotoOutcome(ctx.user_id, path) EXCEPT !.resp.op = handler]
              : path \in PhotoPaths}
      [] handler = "GetUserByID" ->
           {GetProfileOutcome(handler, id) : id \in IDs}
      [] handler = "GetTeachers" ->
           {Answer(handler, NoError, 200, {ToResponse(r) : r \in GetTeachers})}
      [] handler = "GetStudents" ->
           {Answer(handler, NoError, 200, {ToResponse(r) : r \in GetStudents})}
      [] handler = "GetStudentsByClass" ->
           {Answer(handler, NoError, 200,
                   {ToResponse(r) : r \in GetStudentsByClass("7A")})}
      [] handler = "GetClassList" ->
           {Answer(handler, NoError, 200, GetClassList)}
      [] handler = "GetAllUsers" ->
           {Answer(handler, NoError, 200,
                   ListUsersBody(NULL, NULL, "", ListUsersArgs(NULL, NULL), res))
              : res \in GetAllUsers(ListUsersArgs(NULL, NULL).page,
                                    ListUsersArgs(NULL, NULL).limit, "")}
      [] handler = "CreateUser" ->
           {CreateUserRouteOutcome(req) : req \in RouteCreateReqs}
      [] handler = "UpdateUser" ->
           {UpdateUserRouteOutcome(handler, id, req)
              : id \in IDs, req \in RouteUpdateReqs}
      [] handler = "DeactivateUser" ->
           {DeleteUsersRouteOutcome(id) : id \in IDs}
      [] handler = "GetUserStats" ->
           {Answer(handler, NoError, 200, GetUserStats)}
      [] handler = "SearchUsers" ->
           SearchUsersRouteOutcomes("@", "", NULL)

\* a request to a protected route: AuthMiddleware, the RoleMiddleware of the
\* route's group, then the handler, each reached when the one before it
\* called c.Next()
ServeOutcomes(route, header, answer) ==
    LET a == AuthMiddleware(header, answer)
        r == IF route.allowed = NULL \/ a.status # 0 THEN a
             ELSE RoleMiddleware(route.allowed[1], a.ctx)
    IN  IF a.status # 0
          THEN {Unchanged(Response("AuthMiddleware", a.err, a.status, NULL))}
        ELSE IF r.status # 0
          THEN {Unchanged(Response("RoleMiddleware", r.err, r.status, NULL))}
        ELSE HandlerOutcomes(route.handler, a.ctx[1])

Serve(route, header, answer) ==
    \E o \in ServeOutcomes(route, header, answer) :
        /\ Apply(o)
        /\ UNCHANGED pending

(***************************************************************************)
(* Spec: every operation, the requests served one at a time.               *)
(***************************************************************************)
Next ==
    \/ \E req \in CreateReqs : CreateUser(req)
    \/ \E id \in IDs, req \in UpdateReqs : UpdateUser(id, req)
    \/ \E id \in IDs, path \in PhotoPaths : UpdateUserPhoto(id, path)
    \/ \E id \in IDs : DeleteUsersRoute(id)
    \/ \E id \in IDs : ActivateUser(id)
    \/ \E id \in IDs : DeleteUser(id)
    \/ \E list \in BulkInputs : BulkCreateUsers(list)
    \/ SeedData

Spec == Init /\ [][Next]_vars

(***************************************************************************)
(* SpecRace: the statements of concurrent requests interleaved.  One       *)
(* request at a time is held between its statements (pending) while the    *)
(* others run theirs; two reads commute, so this covers every interleaving *)
(* of two requests.                                                        *)
(***************************************************************************)
RaceCreateReqs ==
    { AdminProfile(Login("admin", "admin@pesantren.com", PwAdmin)),
      TeacherProfile(Login("u1", "u1@x.id", PwAdmin)),
      [AdminProfile(Login("admin", "u1@x.id", PwAdmin))
         EXCEPT !.employee_id = Some("E1")] }

RaceUpdateReqs ==
    { Supplying([employee_id |-> "E1"]),
      Supplying([phone |-> "0811"]) }

RaceBulkInputs ==
    { <<Candidate([AdminProfile(Login("admin", "admin@pesantren.com", PwAdmin))
                     EXCEPT !.student_id = Some("S1")]),
        Candidate(StudentProfile(Login("u1", "u1@x.id", PwAdmin)))>> }

NextRace ==
    \/ \E req \in RaceCreateReqs : CreateUser(req)
    \/ \E req \in RaceCreateReqs : CreateUserBegin(req)
    \/ CreateUserFinish
    \/ \E id \in IDs, req \in RaceUpdateReqs : UpdateUser(id, req)
    \/ \E id \in IDs, req \in RaceUpdateReqs : UpdateUserBegin(id, req)
    \/ UpdateUserApply
    \/ UpdateUserFinish
    \/ \E id \in IDs : DeleteUsersRoute(id)
    \/ \E id \in IDs : ActivateUser(id)
    \/ \E id \in IDs : DeleteUser(id)
    \/ \E list \in RaceBulkInputs : BulkCreateUsers(list)

SpecRace == Init /\ [][NextRace]_vars

(***************************************************************************)
(* SpecCreate: the creation paths over every combination of null, empty    *)
(* and present role-specific fields, for one login.                        *)
(***************************************************************************)
Opt(v) == {NULL, Some(""), Some(v)}

Given(v) == {NULL, Some(v)}

U1(role, pw) == [Login("u1", "u1@x.id", pw) EXCEPT !.role = role]

\* teachers and students with each of their required fields null, empty or
\* present and the other role's fields all null or all present; admins with
\* every subset of the six fields; admins with a password the policy rejects
WideCreateReqs ==
    { Profile(U1("teacher", PwAdmin), e, sp, st, st, st, st)
        : e \in Opt("E1"), sp \in Opt("fiqh"), st \in Given("x") }
    \cup { Profile(U1("student", PwAdmin), e, e, st, cl, pn, pp)
             : st \in Opt("S1"), cl \in Opt("7A"), pn \in Opt("pn"),
               pp \in Opt("08"), e \in Given("x") }
    \cup { Profile(U1("admin", PwAdmin), e, sp, st, cl, pn, pp)
             : e \in Given("E1"), sp \in Given("fiqh"), st \in Given("S1"),
               cl \in Given("7A"), pn \in Given("pn"), pp \in Given("08") }
    \cup { U1("admin", PwShort), U1("admin", PwNoSpecial) }

\* the imports of one candidate
WideBulkInputs ==
    { <<Candidate(req)>> : req \in {r \in WideCreateReqs : r.password = PwAdmin} }

NextCreate ==
    \/ \E req \in WideCreateReqs : CreateUser(req)
    \/ \E list \in WideBulkInputs : BulkCreateUsers(list)
    \/ \E id \in IDs : DeleteUser(id)

SpecCreate == Init /\ [][NextCreate]_vars

(***************************************************************************)
(* SpecUpdate: UpdateUser over requests that supply each field alone, two  *)
(* fields, nothing, an employee ID another record holds and a gender the   *)
(* table does not allow.                                                   *)
(***************************************************************************)
\* a value for each field of the request
UpdateValue(f) ==
    CASE f = "experience_years" -> 5
      [] f = "date_of_birth" -> 20000101
      [] f = "gender" -> "female"
      [] f = "employee_id" -> "E2"
      [] f = "student_id" -> "S2"
      [] f = "status" -> "inactive"
      [] OTHER -> "v"

WideUpdateReqs ==
    { [g \in UpdateFields |-> IF g = f THEN Some(UpdateValue(f)) ELSE NULL]
        : f \in UpdateFields }
    \cup UpdateReqs

UpdateCreateReqs ==
    { AdminProfile(Login("admin", "admin@pesantren.com", PwAdmin)),
      TeacherProfile(Login("u1", "u1@x.id", PwAdmin)) }

NextUpdate ==
    \/ \E req \in UpdateCreateReqs : CreateUser(req)
    \/ \E id \in IDs, req \in WideUpdateReqs : UpdateUser(id, req)

SpecUpdate == Init /\ [][NextUpdate]_vars

(***************************************************************************)
(* SpecBulk: BulkCreateUsers over import files long enough to fill more    *)
(* than one batch.                                                         *)
(***************************************************************************)
\* record i of an import file: an admin with a username and email of its own
ImportAdmin(i) ==
    Candidate(AdminProfile(Login("b" \o ToString(i),
                                 "b" \o ToString(i) \o "@x.id", PwAdmin)))

\* a teacher without specialization in the place of record i
ImportBadTeacher(i) ==
    [ImportAdmin(i) EXCEPT !.role = "teacher",
                           !.employee_id = Some("BE" \o ToString(i))]

\* a student without parent phone in the place of record i
ImportBadStudent(i) ==
    [ImportAdmin(i) EXCEPT !.role = "student",
                           !.student_id = Some("BS" \o ToString(i)),
                           !.class_level = Some("7A"),
                           !.parent_name = Some("pn")]

\* a record that carries the columns no request can set
ImportPaid(i) ==
    [ImportAdmin(i) EXCEPT !.salary = Some(5000000), !.blood_type = Some("O"),
                           !.additional_data = Some("{}")]

\* a file of n valid records
ImportFile(n) == [i \in 1..n |-> ImportAdmin(i)]

\* the import files explored: valid files of one batch and of two, files
\* whose record 1, 2 or 50 fails role validation, files that repeat record 1
\* within the first batch and in the second one
ImportFiles ==
    { ImportFile(2),
      ImportFile(101),
      <<ImportPaid(102)>>,
      [ImportFile(2) EXCEPT ![1] = ImportBadTeacher(1), ![2] = ImportBadStudent(2)],
      [ImportFile(51) EXCEPT ![50] = ImportBadTeacher(50)],
      [ImportFile(3) EXCEPT ![3] = ImportAdmin(1)],
      [ImportFile(101) EXCEPT ![101] = ImportAdmin(1)] }

\* a BulkCreateUsers call on an import file, made while the id sequence is
\* still within MaxRows
BulkImport(list) ==
    \E o \in {BulkCreateUsersOutcome(list)} :
        /\ idseq <= MaxRows
        /\ o.clock <= MaxClock
        /\ users' = o.tbl
        /\ idseq' = o.idseq
        /\ clock' = o.clock
        /\ last' = o.resp
        /\ UNCHANGED pending

\* DeleteUser on an imported record
DeleteImported(id) ==
    \E o \in {DeleteUserOutcome(id)} :
        /\ o.clock <= MaxClock
        /\ users' = o.tbl
        /\ idseq' = o.idseq
        /\ clock' = o.clock
        /\ last' = o.resp
        /\ UNCHANGED pending

NextBulk ==
    \/ \E list \in ImportFiles : BulkImport(list)
    \/ \E id \in IDs : DeleteImported(id)

SpecBulk == Init /\ [][NextBulk]_vars

(***************************************************************************)
(* SpecRequired: a teacher and a student whose required fields are present *)
(* or consist of spaces only, a teacher without specialization, updates    *)
(* that set a required field to the empty string or to spaces, and         *)
(* deactivation through the DELETE route.                                  *)
(***************************************************************************)
Spaces == {" ", "   "}

Spaced(v) == {Some(" "), Some(v)}

U2(role) == [Login("u2", "u2@x.id", PwAdmin) EXCEPT !.role = role]

BlankCreateReqs ==
    { Profile(U1("teacher", PwAdmin), e, sp, NULL, NULL, NULL, NULL)
        : e \in Spaced("E1"), sp \in {NULL, Some("   "), Some("fiqh")} }
    \cup { Profile(U2("student"), NULL, NULL, st, cl, Some("pn"), pp)
             : st \in Spaced("S1"), cl \in Spaced("7A"), pp \in {Some("08")} }
    \cup { Profile(U2("student"), NULL, NULL, Some("S1"), Some("7A"),
                   Some(" "), Some("   ")) }

BlankBulkInputs ==
    { <<Candidate(Profile(U1("teacher", PwAdmin), Some("E1"), Some(" "),
                          NULL, NULL, NULL, NULL))>>,
      <<Candidate(Profile(U1("teacher", PwAdmin), Some("E1"), Some("fiqh"),
                          NULL, NULL, NULL, NULL)),
        Candidate(Profile(U2("student"), NULL, NULL, Some("S1"),
                          Some(" "), Some("pn"), Some("08")))>> }

BlankUpdateReqs ==
    { Supplying([specialization |-> ""]),
      Supplying([employee_id |-> " "]),
      Supplying([student_id |-> ""]),
      Supplying([class_level |-> ""]),
      Supplying([parent_phone |-> "", phone |-> "0811"]) }

NextRequired ==
    \/ \E req \in BlankCreateReqs : CreateUser(req)
    \/ \E list \in BlankBulkInputs : BulkCreateUsers(list)
    \/ \E id \in IDs, req \in BlankUpdateReqs : UpdateUser(id, req)
    \/ \E id \in IDs : DeleteUsersRoute(id)

SpecRequired == Init /\ [][NextRequired]_vars

(***************************************************************************)
(* SpecList: the list request over page and limit parameters that are      *)
(* absent, empty, not numbers, zero, negative, in range and beyond it, on  *)
(* tables filled by single creations and by imports.                       *)
(***************************************************************************)
QueryTexts ==
    { NULL, <<>>, <<"a", "b", "c">>, <<"0">>, <<"-", "3">>, <<"2">>,
      <<"1", "0", "0">>, <<"1", "0", "1">>,
      <<"9", "9", "9", "9", "9", "9", "9", "9", "9", "9", "9">> }

ListCreateReqs ==
    { AdminProfile(Login("admin", "admin@pesantren.com", PwAdmin)),
      StudentProfile(Login("u1", "u1@x.id", PwAdmin)) }

ListBulkInputs ==
    { <<Candidate(AdminProfile(Login("admin", "admin@pesantren.com", PwAdmin))),
        Candidate(TeacherProfile(Login("u1", "u1@x.id", PwAdmin)))>> }

NextList ==
    \/ \E req \in ListCreateReqs : CreateUser(req)
    \/ \E list \in ListBulkInputs : BulkCreateUsers(list)
    \/ \E id \in IDs : DeleteUsersRoute(id)
    \/ \E id \in IDs : DeleteUser(id)
    \/ \E pageQ \in QueryTexts, limitQ \in QueryTexts, role \in {"", "teacher"} :
          ListUsersRoute(pageQ, limitQ, role)
    \/ GetUserStatsRoute

SpecList == Init /\ [][NextList]_vars

(***************************************************************************)
(* SpecPassword: creations, by the service alone and through the handler,  *)
(* over passwords that are short, that lack each class of character, that  *)
(* meet the policy, and one of seven characters that fill ten bytes.       *)
(***************************************************************************)
\* "Abcdefg1!" without each of its classes in turn, "Abcdef 1" with a space
\* for the symbol, "Aa1!" followed by three accented letters, and seven and
\* eight ASCII characters
WidePasswords ==
    { PwAdmin, PwShort, PwNoSpecial,
      <<"l", "l", "l", "l", "l", "l", "l", "d", "s">>,
      <<"U", "U", "U", "U", "U", "U", "U", "d", "s">>,
      <<"U", "l", "l", "l", "l", "l", "l", "l", "s">>,
      <<"U", "l", "l", "l", "l", "l", "o", "d">>,
      <<"U", "l", "d", "s", "l2", "l2", "l2">>,
      <<"U", "l", "d", "s", "l", "l", "l">>,
      <<"U", "l", "d", "s", "l", "l", "l", "l">>,
      <<"d", "d", "d", "d", "d", "d", "d", "d">>,
      <<>> }

PasswordCreateReqs ==
    { AdminProfile(Login(n, n \o "@x.id", pw)) : n \in {"user1", "user2"},
                                                  pw \in WidePasswords }

NextPassword ==
    \/ \E req \in PasswordCreateReqs : CreateUser(req)
    \/ \E req \in PasswordCreateReqs : CreateUserRoute(req)
    \/ \E id \in IDs : DeleteUser(id)

SpecPassword == Init /\ [][NextPassword]_vars

(***************************************************************************)
(* SpecAuth: requests to the protected routes, each through its chain of   *)
(* middleware, under every header and every answer of the auth service     *)
(* explored.  The store holds what the requests let through have written.  *)
(***************************************************************************)
Tokens == {"t1", "Bearer"}

\* the Authorization headers explored: none, the bearer form, other
\* schemes, a scheme without token, a token without scheme, and more than
\* one space (net/http hands a value over without spaces at its ends)
Headers ==
    { <<>>, <<"Bearer">>, <<"t1">>, <<"Basic", " ", "t1">>,
      <<"bearer", " ", "t1">>, <<"Bearer", " ", " ", "t1">>,
      <<"Bearer", " ", "t1", " ", "t1">> }
    \cup { <<"Bearer", " ", token>> : token \in Tokens }

\* the roles an identity of the auth service can carry
TokenRoles == Roles \cup {"Admin", "guest", ""}

AuthAnswers ==
    {ValidateTokenError}
    \cup { ValidateTokenAnswer(valid, AuthUser(1, role))
             : valid \in BOOLEAN, role \in TokenRoles }

NextAuth ==
    \E route \in Routes, header \in Headers, answer \in AuthAnswers :
        Serve(route, header, answer)

SpecAuth == Init /\ [][NextAuth]_vars

(***************************************************************************)
(* SpecSearch: search requests, with every form of query and limit, over   *)
(* tables filled by single creations and by imports.                       *)
(***************************************************************************)
SearchTexts == {"", "ADM", "@", "%", "_"}

NextSearch ==
    \/ \E req \in ListCreateReqs : CreateUser(req)
    \/ \E list \in ListBulkInputs : BulkCreateUsers(list)
    \/ \E id \in IDs : DeleteUsersRoute(id)
    \/ \E id \in IDs : DeleteUser(id)
    \/ \E q \in SearchTexts, role \in {"", "teacher"}, limitQ \in QueryTexts :
          SearchUsersRoute(q, role, limitQ)

SpecSearch == Init /\ [][NextSearch]_vars

(***************************************************************************)
(* Properties.                                                             *)
(***************************************************************************)
ErrDuplicate == <<"duplicate key value violates unique constraint">>

\* the message the first missing field of a teacher calls for, read off the
\* request's fields
TeacherMessage(req) ==
    IF NilOrEmpty(req.employee_id)
      THEN <<"employee_id is required for teachers">>
    ELSE IF NilOrEmpty(req.specialization)
      THEN <<"specialization is required for teachers">>
    ELSE NoError

\* the errors a creation can end in once role validation has passed
PastRoleValidation ==
    { NoError, ErrConflict, <<"failed to create user: ">> \o ErrDuplicate,
      <<"bulk create failed: ">> \o ErrDuplicate }

\* C1: for every teacher candidate, creation through CreateUser (once the
\* existence check and the password policy have passed) and through
\* BulkCreateUsers fails with "employee_id is required for teachers" when the
\* employee ID is null or empty, with "specialization is required for
\* teachers" when the employee ID is present and the specialization is null
\* or empty, each time leaving the table as it was; with both present role
\* validation passes
C1_TeacherRequiredFields ==
    \A req \in WideCreateReqs :
        req.role = "teacher" =>
            LET msg  == TeacherMessage(req)
                one  == CreateUserOutcome(req)
                bulk == BulkCreateUsersOutcome(<<Candidate(req)>>)
            IN  IF msg # NoError
                  THEN /\ one.tbl = users
                       /\ CreateUserPrepare(req).err = NoError
                            => one.resp.err = <<"failed to create user: ">> \o msg
                       /\ bulk.tbl = users
                       /\ bulk.resp.err =
                            <<"validation failed for user ", "1", ": ">> \o msg
                  ELSE /\ ValidateForRole(Candidate(req)) = NoError
                       /\ ValidateRoleRequiredFields(Candidate(req)) = NoError
                       /\ one.resp.err \in PastRoleValidation
                       /\ bulk.resp.err \in PastRoleValidation

\* a teacher without specialization has been turned down by CreateUser
C1_Witness ==
    /\ last.op = "CreateUser"
    /\ last.err = <<"failed to create user: ",
                    "specialization is required for teachers">>
    /\ users = {}

StudentRequired == {"student_id", "class_level", "parent_name", "parent_phone"}

StudentMessages ==
    { <<"student_id is required for students">>,
      <<"class_level is required for students">>,
      <<"parent_name is required for students">>,
      <<"parent_phone is required for students">> }

\* C2: for every student candidate with some of student ID, class level,
\* parent name and parent phone null or empty, CreateUser and BulkCreateUsers
\* fail and leave the table as it was (CreateUser with one of the student
\* messages once the existence check has passed); with all four present role
\* validation passes
C2_StudentRequiredFields ==
    \A req \in WideCreateReqs :
        req.role = "student" =>
            LET missing == {f \in StudentRequired : NilOrEmpty(req[f])}
                one     == CreateUserOutcome(req)
                bulk    == BulkCreateUsersOutcome(<<Candidate(req)>>)
            IN  IF missing # {}
                  THEN /\ one.resp.err # NoError
                       /\ one.tbl = users
                       /\ CreateUserPrepare(req).err = NoError
                            => /\ Len(one.resp.err) = 2
                               /\ <<one.resp.err[2]>> \in StudentMessages
                       /\ bulk.resp.err # NoError
                       /\ bulk.tbl = users
                  ELSE /\ ValidateForRole(Candidate(req)) = NoError
                       /\ ValidateRoleRequiredFields(Candidate(req)) = NoError
                       /\ one.resp.err \in PastRoleValidation
                       /\ bulk.resp.err \in PastRoleValidation

\* a student whose parent phone alone is missing has been turned down
C2_Witness ==
    /\ last.op = "CreateUser"
    /\ last.err = <<"failed to create user: ",
                    "parent_phone is required for students">>
    /\ users = {}

RoleSpecific ==
    {"employee_id", "specialization", "student_id", "class_level",
     "parent_name", "parent_phone"}

\* C3: role validation passes for every admin candidate, whichever of the
\* role-specific fields it carries, and CreateUser stores an admin that
\* carries none of them whenever no row of the table holds its username or
\* its email and its password meets the policy
C3_AdminNeedsNoFields ==
    \A req \in WideCreateReqs :
        req.role = "admin" =>
            LET one == CreateUserOutcome(req)
            IN  /\ ValidateForRole(Candidate(req)) = NoError
                /\ ValidateRoleRequiredFields(Candidate(req)) = NoError
                /\ ( /\ \A f \in RoleSpecific : req[f] = NULL
                     /\ \A r \in users : r.username # req.username
                                         /\ r.email # req.email
                     /\ ValidatePassword(req.password) = NoError )
                   => /\ one.resp.err = NoError
                      /\ one.resp.status = 201
                      /\ \E r \in one.tbl \ users :
                            /\ r.username = req.username
                            /\ r.role = "admin"
                            /\ one.tbl = users \cup {r}

\* an admin without any role-specific field has been created
C3_Witness ==
    /\ last.op = "CreateUser"
    /\ last.err = NoError
    /\ last.ret # NULL
    /\ last.ret[1].role = "admin"
    /\ \A f \in RoleSpecific : last.ret[1][f] = NULL
    /\ last.ret[1] \in users

\* what C4 says of the record id: found by ID as inactive, not found by its
\* username or its email
DeactivatedView(id) ==
    /\ GetUserByID(id).err = NoError
    /\ ~GetUserByID(id).user[1].is_active
    /\ GetUserByUsername(GetUserByID(id).user[1].username).err = ErrNotFound
    /\ GetUserByEmail(GetUserByID(id).user[1].email).err = ErrNotFound

\* C4 as claimed: a successful DeactivateUser puts the record in the state
\* where lookup by username and by email answer NotFound and lookup by ID
\* returns it with is_active = false, and every step other than ActivateUser
\* on the record keeps it there
C4_DeactivatedUntilActivated ==
    [][\A id \in IDs :
          /\ (DeactivateUser(id) /\ last'.err = NoError) => DeactivatedView(id)'
          /\ (DeactivatedView(id) /\ ~ActivateUser(id)) => DeactivatedView(id)'
      ]_vars

\* C4, amended: a successful DeactivateUser puts the record in that state,
\* and every step other than ActivateUser or DeleteUser on the record keeps
\* it there
C4_DeactivatedUntilActivatedOrDeleted ==
    [][\A id \in IDs :
          /\ (DeactivateUser(id) /\ last'.err = NoError) => DeactivatedView(id)'
          /\ (DeactivatedView(id) /\ ~ActivateUser(id) /\ ~DeleteUser(id))
               => DeactivatedView(id)'
      ]_vars

\* a deactivated record has since been updated and is still hidden from the
\* lookups by username and email
C4_Witness ==
    /\ last.op = "UpdateUser"
    /\ last.err = NoError
    /\ last.ret # NULL
    /\ DeactivatedView(last.ret[1].id)
    /\ last.ret[1].updated_at > last.ret[1].created_at

\* what C5 says of the deleted record id: its tombstoned row answers
\* NotFound to the lookups by ID, by its username and by its email
DeletedView(id) ==
    /\ GetUserByID(id).err = ErrNotFound
    /\ \E r \in users :
          /\ r.id = id
          /\ r.deleted_at # NULL
          /\ GetUserByUsername(r.username).err = ErrNotFound
          /\ GetUserByEmail(r.email).err = ErrNotFound

\* C5: DeleteUser on an ID with no live row answers NotFound and changes
\* nothing; DeleteUser on a live row succeeds and leaves the record NotFound
\* for the lookups by ID, username and email, and no later step of any
\* operation brings it back
C5_DeletedStaysHidden ==
    [][\A id \in IDs :
          /\ (DeleteUser(id) /\ RowsAffected(users, id) = 0)
               => /\ last'.err = ErrNotFound
                  /\ UNCHANGED <<users, idseq, clock>>
          /\ (DeleteUser(id) /\ RowsAffected(users, id) # 0)
               => /\ last'.err = NoError
                  /\ DeletedView(id)'
          /\ DeletedView(id) => DeletedView(id)'
      ]_vars

\* a deleted record is hidden and a later creation under its username has
\* been turned down by the unique index
C5_Witness ==
    /\ last.op = "CreateUser"
    /\ last.err = <<"failed to create user: ">> \o ErrDuplicate
    /\ \E id \in IDs : DeletedView(id)
    /\ Live(users) = {}

\* C6 as claimed: a DELETE /users/:id that answers 200 leaves the record
\* tombstoned and NotFound for the lookup by ID
C6_DeleteRouteTombstones ==
    [][\A id \in IDs :
          (DeleteUsersRoute(id) /\ last'.status = 200)
             => /\ \E r \in users' : r.id = id /\ r.deleted_at # NULL
                /\ GetUserByID(id)'.err = ErrNotFound
      ]_vars

\* what C7 says of an UpdateUser request on the row old: in the outcome o
\* the row carries the supplied values in the supplied fields and its former
\* values everywhere else but in updated_at, which is later than before; the
\* other rows are the same, and the row is what the request returns
AppliedExactly(old, req, o) ==
    \E new \in o.tbl \ users :
        /\ new.id = old.id
        /\ \A f \in UpdateFields :
              new[f] = IF req[f] # NULL THEN req[f] ELSE old[f]
        /\ \A f \in DOMAIN old \ (UpdateFields \cup {"updated_at"}) :
              new[f] = old[f]
        /\ new.updated_at > old.updated_at
        /\ o.tbl \ {new} = users \ {old}
        /\ o.resp.ret = Some(new)

\* C7 as claimed: for every existing record and every request, UpdateUser
\* changes exactly the supplied fields and advances updated_at
C7_UpdateChangesExactlySupplied ==
    \A old \in Live(users), req \in WideUpdateReqs :
        \A o \in {UpdateUserOutcome(old.id, req)} :
            AppliedExactly(old, req, o)

\* C7, amended: for every existing record and every request, UpdateUser
\* either succeeds, changing exactly the supplied fields, advancing
\* updated_at and returning the stored row, or fails with a wrapped storage
\* error and changes no row; it fails only when the request supplies a
\* gender, an employee ID or a student ID
C7_UpdateChangesExactlySuppliedOrNothing ==
    \A old \in Live(users), req \in WideUpdateReqs :
        \A o \in {UpdateUserOutcome(old.id, req)} :
            IF o.resp.err = NoError
              THEN AppliedExactly(old, req, o)
              ELSE /\ o.tbl = users
                   /\ Head(o.resp.err) = "failed to update user: "
                   /\ o.resp.status = 500
                   /\ UpdateData(req) \cap {"gender", "employee_id", "student_id"} # {}

\* an update that supplied the phone and the address has gone through on a
\* record whose role-specific fields it left alone
C7_Witness ==
    /\ last.op = "UpdateUser"
    /\ last.err = NoError
    /\ last.ret # NULL
    /\ last.ret[1].phone = Some("0811")
    /\ last.ret[1].address = Some("a")
    /\ last.ret[1].specialization = Some("fiqh")
    /\ last.ret[1].full_name = NULL
    /\ last.ret[1].updated_at > last.ret[1].created_at
    /\ last.ret[1] \in users

\* the usernames and emails asked about: those of the requests and one more
AskedUsernames == Usernames \cup {"u2"}

AskedEmails == Emails \cup {"u2@x.id"}

C9_UniqueKeys ==
    \A r1, r2 \in users :
        r1 # r2 =>
            /\ r1.id # r2.id
            /\ r1.username # r2.username
            /\ r1.email # r2.email
            /\ r1.employee_id # NULL => r1.employee_id # r2.employee_id
            /\ r1.student_id # NULL => r1.student_id # r2.student_id

\* a creation that passed the existence check has been turned down at the
\* INSERT by the username or email of a row stored in the meantime
C9_Witness ==
    /\ last.op = "CreateUser"
    /\ last.err = <<"failed to create user: ">> \o ErrDuplicate
    /\ users # {}
    /\ \A r \in users : NotDeleted(r) /\ r.employee_id = NULL /\ r.student_id = NULL

\* some row, soft-deleted or not, holds the username or the email
Registered(username, email) ==
    \E r \in users : r.username = username \/ r.email = email

\* C10 as claimed: a CreateUser whose username or email some row holds,
\* soft-deleted rows included, is answered with the Conflict error and the
\* status 409 and leaves the table as it was, also when it reaches its
\* INSERT after a concurrent creation has stored the row
C10_DuplicateIsConflict ==
    [][/\ \A req \in RaceCreateReqs :
             (CreateUser(req) /\ Registered(req.username, req.email))
                => /\ last'.err = ErrConflict
                   /\ last'.status = 409
                   /\ users' = users
       /\ (CreateUserFinish
             /\ Registered(pending[1].user.username, pending[1].user.email))
            => /\ last'.err = ErrConflict
               /\ last'.status = 409
               /\ users' = users
      ]_vars

\* the message the first missing required field of a record calls for,
\* read off the record's fields
RequiredMessage(u) ==
    IF u.role = "teacher" THEN TeacherMessage(u)
    ELSE IF u.role = "student"
      THEN IF NilOrEmpty(u.student_id)
             THEN <<"student_id is required for students">>
           ELSE IF NilOrEmpty(u.class_level)
             THEN <<"class_level is required for students">>
           ELSE IF NilOrEmpty(u.parent_name)
             THEN <<"parent_name is required for students">>
           ELSE IF NilOrEmpty(u.parent_phone)
             THEN <<"parent_phone is required for students">>
           ELSE NoError
    ELSE NoError

\* the positions of the records of a file that miss a required field
Failing(list) == {i \in 1..Len(list) : RequiredMessage(list[i]) # NoError}

\* the least position of a non-empty set of positions
Least(S) == CHOOSE i \in S : \A j \in S : i <= j

\* C11: when some record of the file misses a required field,
\* BulkCreateUsers writes nothing (the table, the id sequence and the clock
\* stay as they are) and its error names the 1-based position of the first
\* such record together with that record's validation message
C11_BulkValidatesBeforeWriting ==
    \A list \in ImportFiles :
        Failing(list) # {} =>
            \A o \in {BulkCreateUsersOutcome(list)} :
                /\ o.tbl = users
                /\ o.idseq = idseq
                /\ o.clock = clock
                /\ o.resp.err =
                      <<"validation failed for user ", ToString(Least(Failing(list))), ": ">>
                        \o RequiredMessage(list[Least(Failing(list))])

\* an import whose record 50 is a teacher without specialization has been
\* turned down, and nothing of it is stored
C11_Witness ==
    /\ last.op = "BulkCreateUsers"
    /\ last.err = <<"validation failed for user ", "50", ": ",
                    "specialization is required for teachers">>
    /\ \A r \in users : r.username # "b1"

\* the records of a file collide neither with each other nor with a row
NonConflicting(list) ==
    /\ \A i, j \in 1..Len(list) :
          i < j => /\ list[i].username # list[j].username
                   /\ list[i].email # list[j].email
    /\ \A i \in 1..Len(list) : \A r \in users :
          /\ r.username # list[i].username
          /\ r.email # list[i].email
    /\ \A i \in 1..Len(list) :
          list[i].employee_id = NULL /\ list[i].student_id = NULL

\* the sizes of the batches the claim expects of n records: 100 each, the
\* rest in the last one
ExpectedBatches(n) ==
    [k \in 1..((n + 99) \div 100) |-> IF k * 100 <= n THEN 100 ELSE n - (k - 1) * 100]

\* C12: a file of n role-valid records that collide with nothing is stored
\* whole and BulkCreateUsers reports success; the records go in
\* ceil(n / 100) batches of at most 100, in the order of the file (the rows
\* of a batch carry the time of its INSERT)
C12_BulkPersistsInBatches ==
    \A list \in ImportFiles :
        (Failing(list) = {} /\ NonConflicting(list)) =>
            \A o \in {BulkCreateUsersOutcome(list)},
               r \in {CreateInBatches(users, idseq, clock, list, BatchSize)} :
                /\ o.resp.err = NoError
                /\ users \subseteq o.tbl
                /\ Cardinality(o.tbl \ users) = Len(list)
                /\ r.batches = ExpectedBatches(Len(list))
                /\ \A i \in 1..Len(list) :
                      \E row \in o.tbl \ users :
                          /\ row.username = list[i].username
                          /\ row.id = idseq + i
                          /\ row.created_at = clock + ((i + 99) \div 100)

\* a file of 101 records has been stored: 100 rows in the first INSERT and
\* one in the second
C12_Witness ==
    /\ last.op = "BulkCreateUsers"
    /\ last.err = NoError
    /\ Cardinality(users) = 101
    /\ Cardinality({r \in users : r.created_at = 1}) = 100
    /\ Cardinality({r \in users : r.created_at = 2}) = 1

\* C13 as claimed: when a batch after the first fails, BulkCreateUsers
\* reports the failure and leaves the rows of the batches before it in the
\* table
C13_EarlierBatchesRemain ==
    [][\A list \in ImportFiles :
          \A run \in {InsertBatches(users, idseq, clock, list, BatchSize, <<>>)} :
              ( /\ BulkImport(list)
                /\ Failing(list) = {}
                /\ run.err # NoError
                /\ Len(run.batches) >= 1 )
                 => /\ last'.err # NoError
                    /\ \A i \in 1..(100 * Len(run.batches)) :
                          \E row \in users' : row.username = list[i].username
      ]_vars

\* the digests of the passwords of the requests
Digests == {Digest(pw) : pw \in Passwords}

\* C14: the view of a stored record of any role has no password hash
\* field, and it is the same whatever the record's password hash
C14_ViewHidesPasswordHash ==
    \A r \in users :
        /\ "password_hash" \notin DOMAIN ToResponse(r)
        /\ \A h \in Digests :
              ToResponse([r EXCEPT !.password_hash = h]) = ToResponse(r)

\* records of two roles are stored with their password hashes, and a view
\* of each exists without it
C14_Witness ==
    \E r1, r2 \in users :
        /\ r1.role = "admin"
        /\ r2.role = "teacher"
        /\ r1.password_hash \in Digests
        /\ r2.password_hash \in Digests
        /\ DOMAIN ToResponse(r1) = ResponseFields
        /\ last.ret = Some(r2)

\* C15 as claimed: every field of a stored record other than the password
\* hash (and the tombstone) is in the view with the stored value, so that a
\* field the view lacks can only be one the record does not have
C15_ViewPassesEverythingElse ==
    \A r \in users :
        \A f \in DOMAIN r \ {"password_hash", "deleted_at"} :
            IF f \in DOMAIN ToResponse(r)
              THEN ToResponse(r)[f] = r[f]
              ELSE r[f] = NULL

\* the required fields of a role
RequiredOf(role) ==
    CASE role = "teacher" -> {"employee_id", "specialization"}
      [] role = "student" -> StudentRequired
      [] OTHER -> {}

\* a value is present when it is non-null and non-empty once the spaces
\* around it are removed
Present(p) == p # NULL /\ p[1] \notin Spaces \cup {""}

\* a row as its INSERT left it
NeverUpdated(r) == r.updated_at = r.created_at

\* C16 as claimed: a candidate with a required field of spaces only fails
\* role validation, so that no row is created with one
C16_SpacesOnlyIsMissing ==
    \A r \in users :
        NeverUpdated(r) => \A f \in RequiredOf(r.role) : Present(r[f])

\* the required fields of a student in the order validation tests them
StudentOrder == <<"student_id", "class_level", "parent_name", "parent_phone">>

\* the positions in StudentOrder of the fields a request leaves null or empty
MissingOf(req) == {i \in 1..4 : NilOrEmpty(req[StudentOrder[i]])}

StudentMessage(i) == StudentOrder[i] \o " is required for students"

\* the student requests that leave several required fields null or empty
SeveralMissing ==
    {req \in WideCreateReqs :
        req.role = "student" /\ Cardinality(MissingOf(req)) >= 2}

\* C17 as claimed: a CreateUser of a student that misses several required
\* fields signals an error for each of them
C17_OneErrorPerMissingField ==
    [][\A req \in SeveralMissing :
          (CreateUser(req) /\ CreateUserPrepare(req).err = NoError)
             => \A i \in MissingOf(req) :
                   \E k \in 1..Len(last'.err) : last'.err[k] = StudentMessage(i)
      ]_vars

\* C17: role validation of a student that misses required fields signals
\* one error, "<field> is required for students" for the first missing field
\* in the order student_id, class_level, parent_name, parent_phone; it is
\* the only message CreateUser and BulkCreateUsers wrap in their error
C17_FirstMissingFieldOnly ==
    \A req \in WideCreateReqs :
        (req.role = "student" /\ MissingOf(req) # {}) =>
            \A msg \in {StudentMessage(Least(MissingOf(req)))},
               one \in {CreateUserOutcome(req)},
               bulk \in {BulkCreateUsersOutcome(<<Candidate(req)>>)} :
                /\ ValidateForRole(Candidate(req)) = <<msg>>
                /\ ValidateRoleRequiredFields(Candidate(req)) = <<msg>>
                /\ CreateUserPrepare(req).err = NoError
                     => one.resp.err = <<"failed to create user: ", msg>>
                /\ bulk.resp.err = <<"validation failed for user ", "1", ": ", msg>>

\* a CreateUser of a student that misses several required fields, the class
\* level first among them, has been turned down with the one message
C17_Witness ==
    /\ last.op = "CreateUser"
    /\ last.err = <<"failed to create user: ",
                    "class_level is required for students">>
    /\ \E req \in SeveralMissing :
          /\ Least(MissingOf(req)) = 2
          /\ CreateUserOutcome(req).resp = last

\* C18 as claimed: every stored teacher has a non-empty employee ID and
\* specialization and every stored student a non-empty student ID, class
\* level, parent name and parent phone, whatever creations, imports and
\* updates came before
C18_StoredRecordsKeepRequiredFields ==
    \A r \in users :
        \A f \in RequiredOf(r.role) : r[f] # NULL /\ r[f] # Some("")

\* the arguments the listings are asked with
ListRoles == Roles \cup {""}

ListPages == {1, 2}

ListLimits == {-1, 0, 1, 10}

SearchQueries == {"ADM", "u1", "@", "%", "_"}

ClassLevels == {"7A", "v", "", " "}

\* the records that are active and not soft-deleted
Visible == {r \in users : r.is_active /\ r.deleted_at = NULL}

\* C19: every record GetAllUsers, GetUsersByRole, GetTeachers, GetStudents,
\* GetStudentsByClass and SearchUsers return is a stored record with
\* is_active = true and no tombstone, and every value GetClassList and
\* GetSpecializationList return is the class level or specialization of one
C19_ListingsShowOnlyVisibleRecords ==
    /\ \A page \in ListPages, limit \in ListLimits, role \in ListRoles :
          \A res \in GetAllUsers(page, limit, role) :
              \A i \in DOMAIN res.users : res.users[i] \in Visible
    /\ \A role \in ListRoles : GetUsersByRole(role) \subseteq Visible
    /\ GetTeachers \subseteq Visible
    /\ GetStudents \subseteq Visible
    /\ \A c \in ClassLevels : GetStudentsByClass(c) \subseteq Visible
    /\ \A query \in SearchQueries, role \in ListRoles, limit \in ListLimits :
          \A found \in SearchUsers(query, role, limit) : found \subseteq Visible
    /\ \A c \in GetClassList :
          \E r \in Visible : r.role = "student" /\ r.class_level = Some(c)
    /\ \A sp \in GetSpecializationList :
          \E r \in Visible : r.role = "teacher" /\ r.specialization = Some(sp)

\* a deactivated teacher and an active admin are stored, and the listings
\* and the search show the admin alone
C19_Witness ==
    \E r1, r2 \in users :
        /\ r1.role = "teacher" /\ ~r1.is_active /\ r1.deleted_at = NULL
        /\ r2.role = "admin" /\ r2.is_active /\ r2.deleted_at = NULL
        /\ GetUsersByRole("teacher") = {}
        /\ GetTeachers = {}
        /\ GetSpecializationList = {}
        /\ GetUsersByRole("admin") = {r2}
        /\ \A res \in GetAllUsers(1, 10, "") :
              res.users = <<r2>> /\ res.total = 1
        /\ SearchUsers("@", "", 20) = {{r2}}

\* a field is missing when it is null or empty
Missing(p) == p = NULL \/ p = Some("")

PageSizes == {1, 2}

\* ceil(n / limit)
PagesOf(n, limit) == (n + limit - 1) \div limit

\* C21 as claimed: GetAllUsers returns the size of the filtered set as the
\* total on every page, each page holds at most limit records in descending
\* order of creation, and the pages 1..ceil(total / limit) hold each record
\* of the filtered set exactly once, so that no record is on two pages and
\* none is on no page
C21_PagesPartitionTheListing ==
    \A limit \in PageSizes, role \in ListRoles :
        \A n \in {Cardinality(ActiveOfRole(role))} :
            /\ \A p \in 1..PagesOf(n, limit) :
                  \A res \in GetAllUsers(p, limit, role) :
                      /\ res.total = n
                      /\ Len(res.users) <= limit
                      /\ \A i, j \in DOMAIN res.users :
                            i < j => res.users[i].created_at
                                       >= res.users[j].created_at
            /\ \A p1, p2 \in 1..PagesOf(n, limit) :
                  p1 # p2 =>
                      \A res1 \in GetAllUsers(p1, limit, role),
                         res2 \in GetAllUsers(p2, limit, role) :
                          \A i \in DOMAIN res1.users, j \in DOMAIN res2.users :
                              res1.users[i] # res2.users[j]

\* the number a page or limit parameter of QueryTexts asks for: none (0)
\* when it is empty or no number, the default when it is absent
Asked(q, default) ==
    CASE q = NULL -> default
      [] q = <<"0">> -> 0
      [] q = <<"-", "3">> -> -3
      [] q = <<"2">> -> 2
      [] q = <<"1", "0", "0">> -> 100
      [] q = <<"1", "0", "1">> -> 101
      [] q = <<"9", "9", "9", "9", "9", "9", "9", "9", "9", "9", "9">> -> IntMax
      [] OTHER -> 0

\* the answers to list requests
ListAnswers == IF last.op = "GetAllUsers" THEN {last.ret[1]} ELSE {}

\* C22 as claimed: a list request calls the service with page >= 1 and
\* 1 <= limit <= 100, a limit above 100 having become 100
C22_LimitAbove100Becomes100 ==
    \A b \in ListAnswers :
        /\ b.page >= 1
        /\ b.limit >= 1 /\ b.limit <= 100
        /\ Asked(b.query.limit, 10) > 100 => b.limit = 100

\* C22: a list request calls the service with page >= 1 and 1 <= limit <=
\* 100: the page asked for, or 1 when it is below 1, absent with no default
\* to take, empty or no number; the limit asked for when it is in 1..100 and
\* 10 in every other case, a limit above 100 included
C22_PageAndLimitClamped ==
    \A b \in ListAnswers :
        /\ b.page >= 1
        /\ b.limit >= 1 /\ b.limit <= 100
        /\ b.page = IF Asked(b.query.page, 1) < 1 THEN 1
                    ELSE Asked(b.query.page, 1)
        /\ b.limit = IF Asked(b.query.limit, 10) \in 1..100
                       THEN Asked(b.query.limit, 10)
                       ELSE 10

\* a list request for page -3 with limit 101 has been answered as page 1
\* with limit 10
C22_Witness ==
    \E b \in ListAnswers :
        /\ b.query.page = <<"-", "3">>
        /\ b.query.limit = <<"1", "0", "1">>
        /\ b.page = 1
        /\ b.limit = 10
        /\ Len(b.data) = 2

\* the IDs the single-field mutations are asked with: those of the rows
\* there can be and one that is never assigned
AskedIDs == 1..(MaxRows + 1)

\* what C23 says of a single-field mutation of record id with outcome o
\* that is to set column col to val
SingleFieldEffect(id, col, val, o) ==
    IF \E r \in users : r.id = id /\ r.deleted_at = NULL
      THEN /\ o.resp.err = NoError
           /\ \A r \in users : r.id # id => r \in o.tbl
           /\ Cardinality(o.tbl) = Cardinality(users)
           /\ \A r \in users :
                 r.id = id =>
                     \E new \in o.tbl :
                         /\ new.id = id
                         /\ new[col] = val
                         /\ new.updated_at > r.updated_at
                         /\ \A f \in DOMAIN r \ {col, "updated_at"} :
                               new[f] = r[f]
      ELSE /\ o.resp.err = <<"user not found">>
           /\ o.tbl = users

\* C23: UpdateUserPhoto, ActivateUser and DeactivateUser answer "user not
\* found" and leave the table as it is when no row, or only a soft-deleted
\* row, has the ID; on an existing record each succeeds, whatever the value
\* the field has, and changes its own field and updated_at of that record
\* and nothing else
C23_SingleFieldMutations ==
    \A id \in AskedIDs :
        /\ \A path \in PhotoPaths :
              SingleFieldEffect(id, "profile_photo", Some(path),
                                UpdateUserPhotoOutcome(id, path))
        /\ SingleFieldEffect(id, "is_active", TRUE, ActivateUserOutcome(id))
        /\ SingleFieldEffect(id, "is_active", FALSE, DeactivateUserOutcome(id))

\* two records were imported at time 1 and one of them deleted at time 2;
\* the other, active all along, has been activated at time 3 with success,
\* and activating the deleted one is refused
C23_Witness ==
    /\ last.op = "ActivateUser"
    /\ last.err = NoError
    /\ clock = 3
    /\ \E r, d \in users :
          /\ r.is_active
          /\ r.deleted_at = NULL
          /\ r.created_at = 1
          /\ r.updated_at = 3
          /\ d.created_at = 1
          /\ d.deleted_at = Some(2)
          /\ ActivateUserOutcome(d.id).resp.err = <<"user not found">>

\* the rows that are not soft-deleted
Stored == {r \in users : r.deleted_at = NULL}

\* C24: GetUserStats returns the number of active stored records as
\* total_active, the number of active stored records of each role as admins,
\* teachers and students, and the number of stored records that are not
\* active as inactive, so that total_active = admins + teachers + students
\* and total_active + inactive is the number of stored records
C24_StatsCountTheStore ==
    \A st \in {GetUserStats} :
        /\ st.total_active = Cardinality({r \in Stored : r.is_active})
        /\ \A role \in Roles :
              st[role \o "s"]
                = Cardinality({r \in Stored : r.is_active /\ r.role = role})
        /\ st.inactive = Cardinality({r \in Stored : ~r.is_active})
        /\ st.total_active = st.admins + st.teachers + st.students
        /\ st.total_active + st.inactive = Cardinality(Stored)
        /\ last.op = "GetUserStats" => last.ret = Some(st)

\* the statistics have been asked for of a store that holds an active
\* teacher and a record that was deactivated and then soft-deleted: one
\* active, one teacher, none inactive
C24_Witness ==
    /\ last.op = "GetUserStats"
    /\ last.ret[1].total_active = 1
    /\ last.ret[1].teachers = 1
    /\ last.ret[1].inactive = 0
    /\ \E r \in users : ~r.is_active /\ r.deleted_at # NULL

\* the password policy: eight characters or more, and an uppercase letter,
\* a lowercase letter, a digit and a special character among them
MeetsPolicy(pw) ==
    /\ Len(pw) >= 8
    /\ \E i \in DOMAIN pw : pw[i] = "U"
    /\ \E i \in DOMAIN pw : pw[i] \in {"l", "l2"}
    /\ \E i \in DOMAIN pw : pw[i] = "d"
    /\ \E i \in DOMAIN pw : pw[i] = "s"

\* C25 as claimed: a password that violates the policy is rejected as a
\* validation failure with the policy's message and nothing is stored, by
\* the service (an error that carries the message) and by the handler in
\* front of it (a 4xx answer)
C25_PolicyViolationsAreRejected ==
    [][\A req \in PasswordCreateReqs :
          ~MeetsPolicy(req.password) =>
              /\ CreateUser(req) =>
                    /\ users' = users
                    /\ \/ last'.err = <<"username or email already exists">>
                       \/ /\ Len(last'.err) >= 2
                          /\ last'.err[1] = "failed to hash password: "
              /\ CreateUserRoute(req) =>
                    /\ users' = users
                    /\ last'.status \in 400..499
      ]_vars

\* the records the bootstrap has stored
SeededAdmins ==
    {r \in users : /\ r.username = "admin" /\ r.role = "admin"
                   /\ r.full_name = Some("System Administrator")}

\* C26 as claimed: SeedData succeeds whenever it runs, in every state the
\* other operations reach, and the store never holds more than one seeded
\* administrator
C26_SeedDataAlwaysSucceeds ==
    /\ last.op = "SeedData" => last.err = NoError
    /\ Cardinality(SeededAdmins) <= 1

\* the fields that identify a record
Identity == {"id", "username", "email", "password_hash", "role"}

\* C27: whatever operation runs, every stored record is stored afterwards
\* under the same ID with the same username, email, password hash and role
C27_IdentityNeverChanges ==
    [][\A r \in users :
          \E after \in users' : \A f \in Identity : after[f] = r[f]
      ]_vars

\* a teacher has had its photo set and has been deactivated since its
\* creation, and is the teacher it was created as
C27_Witness ==
    \E r \in users :
        /\ r.id = 1
        /\ r.username = "u1"
        /\ r.email = "u1@x.id"
        /\ r.role = "teacher"
        /\ r.password_hash = Digest(PwAdmin)
        /\ r.profile_photo # NULL
        /\ ~r.is_active
        /\ r.updated_at > r.created_at

\* C28 as claimed: when an UpdateUser answers with success, the record it
\* returns is the record that is then stored under that ID, not deleted,
\* whatever DeleteUser ran between its statements
C28_UpdateReturnsTheStoredRecord ==
    [][(last' # last /\ last'.op = "UpdateUser" /\ last'.err = NoError) =>
          /\ last'.ret # NULL
          /\ \E r \in users' : r.deleted_at = NULL /\ r = last'.ret[1]
      ]_vars

(***************************************************************************)
(* C29: a handler of a protected route runs, and touches the store, only   *)
(* for a request whose Authorization header is "Bearer <token>", whose     *)
(* token the auth service answered for without error and with valid =      *)
(* true, and whose role is one the route allows: admin for the list,       *)
(* create, update, deactivate, stats and search routes; admin or teacher   *)
(* for the lookup by ID and the teacher, student and class listings; any   *)
(* role for the routes on the caller's own profile.  Every other request   *)
(* is answered 401 or 403 by the middleware and leaves the store as it     *)
(* was.                                                                    *)
(***************************************************************************)
AdminRoutes ==
    {"GetAllUsers", "CreateUser", "UpdateUser", "DeactivateUser", "GetUserStats",
     "SearchUsers"}

AdminTeacherRoutes ==
    {"GetUserByID", "GetTeachers", "GetStudents", "GetStudentsByClass",
     "GetClassList"}

Allowed(route) ==
    IF route.handler \in AdminRoutes THEN {"admin"}
    ELSE IF route.handler \in AdminTeacherRoutes THEN {"admin", "teacher"}
    ELSE TokenRoles

Authorized(route, header, answer) ==
    /\ \E token \in Tokens : header = <<"Bearer", " ", token>>
    /\ ~answer.err /\ answer.valid
    /\ answer.user.role \in Allowed(route)

Middleware == {"AuthMiddleware", "RoleMiddleware"}

C29_HandlersRunOnlyWhenAuthorized ==
    \A route \in Routes, header \in Headers, answer \in AuthAnswers :
        \A o \in ServeOutcomes(route, header, answer) :
            IF Authorized(route, header, answer)
              THEN o.resp.op \notin Middleware
              ELSE /\ o.resp.op \in Middleware
                   /\ o.resp.status \in {401, 403}
                   /\ o.tbl = users /\ o.idseq = idseq /\ o.clock = clock

\* a teacher's request to an admin route was turned down with 403 over a
\* store that an administrator's requests have filled and changed
C29_Witness ==
    /\ last.op = "RoleMiddleware" /\ last.status = 403
    /\ \E r \in users : ~r.is_active /\ r.role = "student"
    /\ \E r \in users : r.is_active /\ r.role = "admin"

(***************************************************************************)
(* C30: the records a search request returns are active records of the     *)
(* role asked for whose full name, username or email contains the query,   *)
(* case aside, and there are no more of them than the cap the request      *)
(* asks for (none for a cap of zero or below) nor than 100.                *)
(***************************************************************************)
\* text contains query regardless of case
Contains(text, query) ==
    text # NULL /\ (query = "" \/ <<text[1], query>> \in Containing)

\* a limit parameter that is a number: digits after an optional sign
IsNumber(limitQ) ==
    /\ limitQ # NULL
    /\ \E digits \in {IF limitQ # <<>> /\ Head(limitQ) \in {"+", "-"}
                        THEN Tail(limitQ) ELSE limitQ} :
          /\ digits # <<>>
          /\ \A i \in DOMAIN digits : digits[i] \in DOMAIN DigitOf

SearchHits(q, role) ==
    {r \in users :
        /\ r.deleted_at = NULL /\ r.is_active
        /\ role = "" \/ r.role = role
        /\ \/ Contains(r.full_name, q)
           \/ Contains(Some(r.username), q)
           \/ Contains(Some(r.email), q)}

C30_SearchReturnsMatchesWithinCap ==
    (last.op = "SearchUsers" /\ last.err = NoError) =>
        \A b \in {last.ret[1]} :
            /\ b.data \subseteq {ToResponse(r) : r \in SearchHits(b.asked.q, b.asked.role)}
            /\ b.count = Cardinality(b.data)
            /\ b.count <= 100
            /\ IsNumber(b.asked.limit) =>
                  b.count <= (IF Atoi(b.asked.limit) < 0 THEN 0
                              ELSE Atoi(b.asked.limit))

====
